---- MODULE Spec2Model ----
(***************************************************************************)
(* Matching and review-state engine of the reconciliation back end:        *)
(* the heuristic scorer and candidate ranker (matching/engine.py), the     *)
(* decision selector (matching/llm_helper.py), the background batch run    *)
(* and the review state machine over the shared match_state dictionary     *)
(* (backend/api/routes/matching.py, backend/api/routes/exceptions.py).     *)
(*                                                                         *)
(* Every "with match_state_lock:" block of the source is one atomic step;  *)
(* lock-free local computation of a thread is folded into the locked step  *)
(* that follows it.                                                        *)
(***************************************************************************)
EXTENDS Integers, Sequences, FiniteSets, TLC

(***************************************************************************)
(* Bounds of the model.                                                    *)
(***************************************************************************)
\* audited decisions (act, reject_approved, restore, approve) a review session
\* issues between two imports
MaxAudit == 1
\* audited decisions issued while the batch run is being watched
MaxRunAudit == 1
\* audited decisions of the confirm/reject session
MaxConfirmAudit == 3
\* longest pending queue: restore and rerun are not issued beyond it
MaxQueue == 3
\* longest bank list the ranker is called with on its own
MaxBanks == 3
\* audited decisions of the session in which every operation on the queue is issued
MaxCursorAudit == 2

(***************************************************************************)
(* Transactions.  A transaction is immutable, so the pools hold ids and    *)
(* the fields are looked up.  Amounts are in cents, dates in hours since   *)
(* an epoch (so that time of day is present), vendors are abstract names.  *)
(***************************************************************************)
NoId == "none"
LedgerIds == {"L1", "L2"}
BankIds == {"B1", "B2"}

Txn(id) ==
  CASE id = "L1" -> [amount |-> 10000, date |-> 240, vendor |-> "acme", txn_type |-> "money_out", reference |-> NoId]
    [] id = "L2" -> [amount |-> 10000, date |-> 312, vendor |-> "acme", txn_type |-> "money_out", reference |-> NoId]
    [] id = "B1" -> [amount |-> 10000, date |-> 240, vendor |-> "acme", txn_type |-> "money_out", reference |-> NoId]
    [] id = "B2" -> [amount |-> 15000, date |-> 312, vendor |-> "acme ltd", txn_type |-> "money_out", reference |-> NoId]
    \* transactions the scorer and the ranker are also called with: the other
    \* transaction type, references, another vendor, a twin of B1
    [] id = "L3" -> [amount |-> 10000, date |-> 240, vendor |-> "acme", txn_type |-> "money_in", reference |-> "R1"]
    [] id = "B3" -> [amount |-> 10000, date |-> 240, vendor |-> "acme", txn_type |-> "money_out", reference |-> NoId]
    [] id = "B4" -> [amount |-> 10000, date |-> 240, vendor |-> "globex", txn_type |-> "money_in", reference |-> "R1"]
    [] id = "B5" -> [amount |-> 10000, date |-> 240, vendor |-> "acme", txn_type |-> "money_out", reference |-> "R2"]

(***************************************************************************)
(* Scoring engine (matching/engine.py).  Component scores are fixed point  *)
(* in thousandths; the composite is in units of 1/200000 so that the       *)
(* weights and the halving penalty stay exact.                             *)
(***************************************************************************)
One == 200000
Abs(x) == IF x < 0 THEN 0 - x ELSE x

\* MatchingConfig defaults: amount_tolerance 0.01 (1 cent), date_window 3 days,
\* vendor_threshold 0.80, require_reference False
DefaultConfig ==
  [vendor_threshold |-> 800, amount_tolerance |-> 1, date_window |-> 3, require_reference |-> FALSE]

\* 1000 * exp(-diff/10), diff in dollars, rounded to thousandths, at the
\* differences the pools produce (diff in cents)
ExpDecay(diffCents) ==
  CASE diffCents = 5000 -> 7
    [] OTHER -> 0

compute_amount_score(cfg, la, ba) ==
  LET diff == Abs(la - ba) IN
  IF diff = 0 THEN 1000
  ELSE IF diff <= cfg.amount_tolerance THEN 1000 - (diff * 100) \div cfg.amount_tolerance
  ELSE ExpDecay(diff)

\* timedelta.days is the floor of the difference in days
compute_date_score(cfg, ld, bd) ==
  LET diff_days == Abs((ld - bd) \div 24) IN
  IF diff_days = 0 THEN 1000
  ELSE IF diff_days <= cfg.date_window THEN 1000 - (diff_days * 500) \div cfg.date_window
  ELSE LET s == 300 - (diff_days - cfg.date_window) * 100 IN IF s < 0 THEN 0 ELSE s

\* fuzz.token_set_ratio / 100 of the lower-cased, trimmed names: 1.0 when the
\* token set of one name contains the other's
compute_vendor_score(lv, bv) ==
  IF lv = bv THEN 1000
  ELSE IF {lv, bv} = {"acme", "acme ltd"} THEN 1000
  ELSE IF {lv, bv} = {"acme", "globex"} THEN 200
  ELSE 0

compute_reference_score(lr, br) ==
  IF lr = NoId /\ br = NoId THEN 500
  ELSE IF lr = NoId \/ br = NoId THEN 300
  ELSE IF lr = br THEN 1000
  ELSE 0

compute_txn_type_score(lt, bt) == IF lt = bt THEN 1000 ELSE 0

compute_match_score(cfg, l, b) ==
  LET lt == Txn(l)
      bt == Txn(b)
      txn_type_score == compute_txn_type_score(lt.txn_type, bt.txn_type)
      amount_score == compute_amount_score(cfg, lt.amount, bt.amount)
      date_score == compute_date_score(cfg, lt.date, bt.date)
      vendor_score == compute_vendor_score(lt.vendor, bt.vendor)
      ref_score == compute_reference_score(lt.reference, bt.reference)
      total_score ==
        IF txn_type_score = 0 THEN One \div 10
        ELSE IF cfg.require_reference /\ ref_score < 800 THEN One \div 10
        ELSE 2 * (35 * amount_score + 25 * date_score + 30 * vendor_score
                  + 5 * ref_score + 5 * txn_type_score)
  IN IF vendor_score < cfg.vendor_threshold THEN total_score \div 2 ELSE total_score

Score(l, b) == compute_match_score(DefaultConfig, l, b)

\* list.sort(key=score, reverse=True): stable, descending
RECURSIVE InsertByScore(_, _, _)
InsertByScore(l, b, sorted) ==
  IF sorted = <<>> THEN <<b>>
  ELSE IF Score(l, Head(sorted)) >= Score(l, b)
       THEN <<Head(sorted)>> \o InsertByScore(l, b, Tail(sorted))
       ELSE <<b>> \o sorted

RECURSIVE SortByScore(_, _)
SortByScore(l, bs) ==
  IF bs = <<>> THEN <<>>
  ELSE InsertByScore(l, bs[Len(bs)], SortByScore(l, SubSeq(bs, 1, Len(bs) - 1)))

\* variant: the claimed bank transactions are ranked too
find_candidates_ranks_claimed(l, bank_transactions, matched, top_k) ==
  LET ranked == SortByScore(l, bank_transactions)
  IN SubSeq(ranked, 1, IF Len(ranked) < top_k THEN Len(ranked) ELSE top_k)

find_candidates(l, bank_transactions, matched, top_k) ==
  LET unmatched(b) == b \notin matched
      ranked == SortByScore(l, SelectSeq(bank_transactions, unmatched))
  IN SubSeq(ranked, 1, IF Len(ranked) < top_k THEN Len(ranked) ELSE top_k)

\* find_all_candidates: the best candidate of every ledger transaction, claimed
\* ids not passed on, kept when its score reaches min_score, sorted by score
RECURSIVE InsertCandidate(_, _)
InsertCandidate(c, sorted) ==
  IF sorted = <<>> THEN <<c>>
  ELSE IF Score(Head(sorted).l, Head(sorted).b) >= Score(c.l, c.b)
       THEN <<Head(sorted)>> \o InsertCandidate(c, Tail(sorted))
       ELSE <<c>> \o sorted

RECURSIVE find_all_candidates(_, _, _)
find_all_candidates(ledger_transactions, bank_transactions, min_score) ==
  IF ledger_transactions = <<>> THEN <<>>
  ELSE LET n == Len(ledger_transactions)
           l == ledger_transactions[n]
           rest == find_all_candidates(SubSeq(ledger_transactions, 1, n - 1),
                                       bank_transactions, min_score)
           best == find_candidates(l, bank_transactions, {}, 1)
       IN IF best # <<>> /\ Score(l, best[1]) >= min_score
          THEN InsertCandidate([l |-> l, b |-> best[1]], rest)
          ELSE rest

(***************************************************************************)
(* Decision selector (matching/llm_helper.py select_best_match): the set   *)
(* of selections it can return for a ranked candidate list.  -1 is None.   *)
(* Without a configured capability the top candidate is taken at 0.5;      *)
(* with one, the answer names any 1-based index or none, an index past     *)
(* the list gives none, and an exception falls back to the top candidate   *)
(* at 0.6.                                                                 *)
(***************************************************************************)
None == 0 - 1

\* what the capability does with one call: it is not configured, the call or
\* the parsing of its text raises, or it answers with a 1-based index, null
\* (None), 0 or an index past the list
Replies(candidates) ==
  {[kind |-> k, selected_candidate |-> None] : k \in {"unavailable", "exception", "malformed"}}
    \cup {[kind |-> "answer", selected_candidate |-> k] :
             k \in {None} \cup (0 .. Len(candidates) + 1)}

\* variant: the answer's index is taken as 0-based
select_best_match_on_zero_based(l, candidates, reply) ==
  IF reply.kind = "unavailable"
  THEN IF candidates # <<>> /\ Score(l, candidates[1]) >= One \div 2
       THEN [idx |-> 0, mode |-> "unavailable"]
       ELSE [idx |-> None, mode |-> "unavailable"]
  ELSE IF candidates = <<>> THEN [idx |-> None, mode |-> "llm"]
  ELSE IF reply.kind \in {"exception", "malformed"}
  THEN IF Score(l, candidates[1]) >= (One * 6) \div 10
       THEN [idx |-> 0, mode |-> "fallback"]
       ELSE [idx |-> None, mode |-> "fallback"]
  ELSE IF /\ reply.selected_candidate # None
          /\ reply.selected_candidate >= 0
          /\ reply.selected_candidate < Len(candidates)
       THEN [idx |-> reply.selected_candidate, mode |-> "llm"]
       ELSE [idx |-> None, mode |-> "llm"]

\* variant: the error path takes the top candidate at 0.5 as well
select_best_match_on_one_threshold(l, candidates, reply) ==
  IF reply.kind = "unavailable"
  THEN IF candidates # <<>> /\ Score(l, candidates[1]) >= One \div 2
       THEN [idx |-> 0, mode |-> "unavailable"]
       ELSE [idx |-> None, mode |-> "unavailable"]
  ELSE IF candidates = <<>> THEN [idx |-> None, mode |-> "llm"]
  ELSE IF reply.kind \in {"exception", "malformed"}
  THEN IF Score(l, candidates[1]) >= One \div 2
       THEN [idx |-> 0, mode |-> "fallback"]
       ELSE [idx |-> None, mode |-> "fallback"]
  ELSE IF /\ reply.selected_candidate # None
          /\ reply.selected_candidate > 0
          /\ reply.selected_candidate - 1 < Len(candidates)
       THEN [idx |-> reply.selected_candidate - 1, mode |-> "llm"]
       ELSE [idx |-> None, mode |-> "llm"]

\* the selection for one reply; mode is the kind of explanation returned:
\* "unavailable" ("... (LLM unavailable)"), "fallback" ("... (LLM error: ...)"),
\* "llm" (the capability's own text, or "No candidates to evaluate")
select_best_match_on(l, candidates, reply) ==
  IF reply.kind = "unavailable"
  THEN IF candidates # <<>> /\ Score(l, candidates[1]) >= One \div 2
       THEN [idx |-> 0, mode |-> "unavailable"]
       ELSE [idx |-> None, mode |-> "unavailable"]
  ELSE IF candidates = <<>> THEN [idx |-> None, mode |-> "llm"]
  ELSE IF reply.kind \in {"exception", "malformed"}
  THEN IF Score(l, candidates[1]) >= (One * 6) \div 10
       THEN [idx |-> 0, mode |-> "fallback"]
       ELSE [idx |-> None, mode |-> "fallback"]
  ELSE IF /\ reply.selected_candidate # None
          /\ reply.selected_candidate > 0
          /\ reply.selected_candidate - 1 < Len(candidates)
       THEN [idx |-> reply.selected_candidate - 1, mode |-> "llm"]
       ELSE [idx |-> None, mode |-> "llm"]

select_best_match(l, candidates) ==
  {select_best_match_on(l, candidates, reply) : reply \in Replies(candidates)}

(***************************************************************************)
(* Session state: the match_state dictionary (routes/matching.py 24-45),   *)
(* the background thread of run_matching_async, a rerun request between    *)
(* its two locked sections, the last operation with its outcome, the       *)
(* exclusions a run started with, and the answer of the reviewer's last    *)
(* request for the next match.                                             *)
(***************************************************************************)
VARIABLES
  normalized_ledger, normalized_bank,
  match_results, unmatched_results, current_index,
  confirmed_matches, rejected_matches, flagged_duplicates, skipped_matches,
  matched_bank_ids, matched_ledger_ids, excluded_ledger_ids, excluded_bank_ids,
  audit_trail,
  matching_in_progress, matching_paused, matching_progress, matching_total,
  matching_error,
  thread, rerun, op, run_excluded, shown

poolVars == <<normalized_ledger, normalized_bank>>
queueVars == <<match_results, unmatched_results, current_index>>
reviewVars == <<confirmed_matches, rejected_matches, flagged_duplicates, skipped_matches>>
claimVars == <<matched_bank_ids, matched_ledger_ids>>
exclVars == <<excluded_ledger_ids, excluded_bank_ids>>
runVars == <<matching_in_progress, matching_paused, matching_progress, matching_total,
             matching_error>>
\* everything a request handler can see or change
sessionVars == <<poolVars, queueVars, reviewVars, claimVars, exclVars, audit_trail, runVars>>
vars == <<sessionVars, thread, rerun, op, run_excluded, shown>>

IdleThread ==
  [pc |-> "idle", ledger_txns |-> <<>>, bank_txns_filtered |-> <<>>,
   excluded_ledger_ids |-> {}, matched_bank_ids |-> {}, i |-> 0,
   processed_count |-> 0, candidates |-> <<>>, selected_idx |-> None,
   explanation |-> ""]

IdleRerun == [pc |-> "idle", new_results |-> <<>>]

\* the reviewer's screen before the first answer of next, and after "done"
NoShown == [match_index |-> None, match |-> [l |-> NoId, b |-> NoId]]

\* an operation and what its caller was told: the HTTP status and the detail text
Op(name, status, detail) == [name |-> name, status |-> status, detail |-> detail]

Init ==
  /\ normalized_ledger = <<>>
  /\ normalized_bank = <<>>
  /\ match_results = <<>>
  /\ unmatched_results = <<>>
  /\ current_index = 0
  /\ confirmed_matches = <<>>
  /\ rejected_matches = <<>>
  /\ flagged_duplicates = <<>>
  /\ skipped_matches = <<>>
  /\ matched_bank_ids = {}
  /\ matched_ledger_ids = {}
  /\ excluded_ledger_ids = {}
  /\ excluded_bank_ids = {}
  /\ audit_trail = <<>>
  /\ matching_in_progress = FALSE
  /\ matching_paused = FALSE
  /\ matching_progress = 0
  /\ matching_total = 0
  /\ matching_error = FALSE
  /\ thread = IdleThread
  /\ rerun = IdleRerun
  /\ op = Op("init", 200, "")
  /\ run_excluded = [l |-> {}, b |-> {}]
  /\ shown = NoShown

(***************************************************************************)
(* Helpers over the collections.                                           *)
(***************************************************************************)
Pair(l, b) == [l |-> l, b |-> b]
Result(l, b, cands) == [l |-> l, b |-> b, candidates |-> cands]
\* an entry of the unmatched bucket: no bank transaction, the top candidate's
\* score (0 without candidates) and the explanation it was filed with
Unmatched(l, cands, explanation) ==
  [l |-> l, b |-> NoId, candidates |-> cands,
   heuristic_score |-> IF cands = <<>> THEN 0 ELSE Score(l, cands[1]),
   llm_explanation |-> explanation]
NoCandidates == "No candidates found by heuristics"
Audit(action, l, b, notes) == [action |-> action, l |-> l, b |-> b, notes |-> notes]

\* index of the first entry of s with the pairing (l, b), 0 when there is none
FirstIndex(s, l, b) ==
  LET hits == {k \in 1 .. Len(s) : s[k].l = l /\ s[k].b = b}
  IN IF hits = {} THEN 0 ELSE CHOOSE k \in hits : \A j \in hits : k <= j

\* list.pop(i), i 1-based
Pop(s, k) == SubSeq(s, 1, k - 1) \o SubSeq(s, k + 1, Len(s))

\* list.insert(i, x), i 0-based
Insert(s, i, x) ==
  LET at == IF i > Len(s) THEN Len(s) ELSE i
  IN SubSeq(s, 1, at) \o <<x>> \o SubSeq(s, at + 1, Len(s))

Actions == {"match", "reject", "exclude_ledger", "exclude_bank", "exclude_both", "skip"}

\* the (ledger_id, bank_id) a caller sends: ids of the pools, or one id missing
RequestPairs == (LedgerIds \X BankIds) \cup {<<NoId, "B1">>, <<"L1", NoId>>}

(***************************************************************************)
(* set_transactions (routes/matching.py 621-648)                           *)
(***************************************************************************)
\* the pools a caller loads: the full lists, or a shorter re-import
PoolChoices ==
  { [ledger |-> <<"L1", "L2">>, bank |-> <<"B1", "B2">>],
    [ledger |-> <<"L2">>, bank |-> <<"B2", "B1">>] }

\* variant: the import also forgets the exclusions
set_transactions_clears_exclusions(ledger, bank) ==
  /\ normalized_ledger' = ledger
  /\ normalized_bank' = bank
  /\ match_results' = <<>>
  /\ unmatched_results' = <<>>
  /\ current_index' = 0
  /\ confirmed_matches' = <<>>
  /\ rejected_matches' = <<>>
  /\ flagged_duplicates' = <<>>
  /\ skipped_matches' = <<>>
  /\ matched_bank_ids' = {}
  /\ matched_ledger_ids' = {}
  /\ excluded_ledger_ids' = {}
  /\ excluded_bank_ids' = {}
  /\ audit_trail' = <<>>
  /\ op' = Op("set_transactions", 200, "")
  /\ UNCHANGED <<runVars, thread, rerun, run_excluded, shown>>

set_transactions(ledger, bank) ==
  /\ normalized_ledger' = ledger
  /\ normalized_bank' = bank
  /\ match_results' = <<>>
  /\ unmatched_results' = <<>>
  /\ current_index' = 0
  /\ confirmed_matches' = <<>>
  /\ rejected_matches' = <<>>
  /\ flagged_duplicates' = <<>>
  /\ skipped_matches' = <<>>
  /\ matched_bank_ids' = {}
  /\ matched_ledger_ids' = {}
  /\ audit_trail' = <<>>
  /\ op' = Op("set_transactions", 200, "")
  /\ UNCHANGED <<exclVars, runVars, thread, rerun, run_excluded, shown>>

SetTransactions == \E p \in PoolChoices : set_transactions(p.ledger, p.bank)

(***************************************************************************)
(* seek (routes/matching.py 412-421)                                       *)
(***************************************************************************)
\* variant: an index out of range is reported and clamped to the queue's start
seek_to_match_clamps(index) ==
  /\ IF index < 0 \/ index >= Len(match_results)
     THEN /\ op' = Op("seek", 400, "Invalid match index")
          /\ current_index' = 0
     ELSE /\ current_index' = index
          /\ op' = Op("seek", 200, "")
  /\ UNCHANGED <<poolVars, match_results, unmatched_results, reviewVars, claimVars,
                 exclVars, audit_trail, runVars, thread, rerun, run_excluded, shown>>

\* variant: only a negative index is refused
seek_to_match_unchecked(index) ==
  /\ IF index < 0
     THEN /\ op' = Op("seek", 400, "Invalid match index")
          /\ UNCHANGED current_index
     ELSE /\ current_index' = index
          /\ op' = Op("seek", 200, "")
  /\ UNCHANGED <<poolVars, match_results, unmatched_results, reviewVars, claimVars,
                 exclVars, audit_trail, runVars, thread, rerun, run_excluded, shown>>

seek_to_match(index) ==
  /\ IF index < 0 \/ index >= Len(match_results)
     THEN /\ op' = Op("seek", 400, "Invalid match index")
          /\ UNCHANGED current_index
     ELSE /\ current_index' = index
          /\ op' = Op("seek", 200, "")
  /\ UNCHANGED <<poolVars, match_results, unmatched_results, reviewVars, claimVars,
                 exclVars, audit_trail, runVars, thread, rerun, run_excluded, shown>>

SeekToMatch == \E index \in (0 - 1) .. MaxQueue : seek_to_match(index)

(***************************************************************************)
(* act (routes/matching.py 446-550 submit_match_action)                    *)
(***************************************************************************)
\* variant: a confirmation claims the bank id only
submit_match_action_claims_bank_only(action) ==
  IF current_index >= Len(match_results)
  THEN /\ op' = Op("act", 400, "No more matches to review")
       /\ UNCHANGED <<sessionVars, thread, rerun, run_excluded, shown>>
  ELSE LET result == match_results[current_index + 1]
           exclude_ledger == action \in {"exclude_ledger", "exclude_both"}
           exclude_bank == action \in {"exclude_bank", "exclude_both"}
       IN
       /\ audit_trail' = Append(audit_trail, Audit(action, result.l, result.b, ""))
       /\ IF action = "match" /\ result.b # NoId
          THEN /\ confirmed_matches' = Append(confirmed_matches, Pair(result.l, result.b))
               /\ matched_bank_ids' = matched_bank_ids \cup {result.b}
               /\ matched_ledger_ids' = matched_ledger_ids
          ELSE UNCHANGED <<confirmed_matches, matched_bank_ids, matched_ledger_ids>>
       /\ rejected_matches' =
            IF action = "reject" THEN Append(rejected_matches, Pair(result.l, result.b))
            ELSE rejected_matches
       /\ excluded_ledger_ids' =
            IF exclude_ledger THEN excluded_ledger_ids \cup {result.l} ELSE excluded_ledger_ids
       /\ excluded_bank_ids' =
            IF exclude_bank /\ result.b # NoId THEN excluded_bank_ids \cup {result.b}
            ELSE excluded_bank_ids
       /\ flagged_duplicates' =
            IF exclude_ledger \/ exclude_bank
            THEN Append(flagged_duplicates,
                        [l |-> result.l, b |-> result.b,
                         exclude_ledger |-> exclude_ledger, exclude_bank |-> exclude_bank])
            ELSE flagged_duplicates
       /\ skipped_matches' =
            IF action = "skip" THEN Append(skipped_matches, Pair(result.l, result.b))
            ELSE skipped_matches
       /\ current_index' = current_index + 1
       /\ op' = Op("act", 200, "")
       /\ UNCHANGED <<poolVars, match_results, unmatched_results, runVars, thread, rerun,
                      run_excluded, shown>>

submit_match_action(action) ==
  IF current_index >= Len(match_results)
  THEN /\ op' = Op("act", 400, "No more matches to review")
       /\ UNCHANGED <<sessionVars, thread, rerun, run_excluded, shown>>
  ELSE LET result == match_results[current_index + 1]
           exclude_ledger == action \in {"exclude_ledger", "exclude_both"}
           exclude_bank == action \in {"exclude_bank", "exclude_both"}
       IN
       /\ audit_trail' = Append(audit_trail, Audit(action, result.l, result.b, ""))
       /\ IF action = "match" /\ result.b # NoId
          THEN /\ confirmed_matches' = Append(confirmed_matches, Pair(result.l, result.b))
               /\ matched_bank_ids' = matched_bank_ids \cup {result.b}
               /\ matched_ledger_ids' = matched_ledger_ids \cup {result.l}
          ELSE UNCHANGED <<confirmed_matches, matched_bank_ids, matched_ledger_ids>>
       /\ rejected_matches' =
            IF action = "reject" THEN Append(rejected_matches, Pair(result.l, result.b))
            ELSE rejected_matches
       /\ excluded_ledger_ids' =
            IF exclude_ledger THEN excluded_ledger_ids \cup {result.l} ELSE excluded_ledger_ids
       /\ excluded_bank_ids' =
            IF exclude_bank /\ result.b # NoId THEN excluded_bank_ids \cup {result.b}
            ELSE excluded_bank_ids
       /\ flagged_duplicates' =
            IF exclude_ledger \/ exclude_bank
            THEN Append(flagged_duplicates,
                        [l |-> result.l, b |-> result.b,
                         exclude_ledger |-> exclude_ledger, exclude_bank |-> exclude_bank])
            ELSE flagged_duplicates
       /\ skipped_matches' =
            IF action = "skip" THEN Append(skipped_matches, Pair(result.l, result.b))
            ELSE skipped_matches
       /\ current_index' = current_index + 1
       /\ op' = Op("act", 200, "")
       /\ UNCHANGED <<poolVars, match_results, unmatched_results, runVars, thread, rerun,
                      run_excluded, shown>>

SubmitMatchAction == \E action \in Actions : submit_match_action(action)

(***************************************************************************)
(* reject_approved (routes/matching.py 553-618)                            *)
(***************************************************************************)
\* variant: the bank id stays claimed after the rejection
reject_approved_match_keeps_bank_claim(ledger_id, bank_id) ==
  LET k == FirstIndex(confirmed_matches, ledger_id, bank_id) IN
  IF ledger_id = NoId \/ bank_id = NoId
  THEN /\ op' = Op("reject_approved", 400, "ledger_id and bank_id are required")
       /\ UNCHANGED <<sessionVars, thread, rerun, run_excluded, shown>>
  ELSE IF k = 0
  THEN /\ op' = Op("reject_approved", 404, "Approved match not found")
       /\ UNCHANGED <<sessionVars, thread, rerun, run_excluded, shown>>
  ELSE /\ confirmed_matches' = Pop(confirmed_matches, k)
       /\ rejected_matches' = Append(rejected_matches, Pair(ledger_id, bank_id))
       /\ matched_bank_ids' = matched_bank_ids
       /\ matched_ledger_ids' = matched_ledger_ids \ {ledger_id}
       /\ audit_trail' = Append(audit_trail, Audit("reject", ledger_id, bank_id,
                                                   "Rejected from approved matches"))
       /\ op' = Op("reject_approved", 200, "")
       /\ UNCHANGED <<poolVars, queueVars, flagged_duplicates, skipped_matches, exclVars,
                      runVars, thread, rerun, run_excluded, shown>>

\* variant: the rejection is not written to the audit trail
reject_approved_match_unaudited(ledger_id, bank_id) ==
  LET k == FirstIndex(confirmed_matches, ledger_id, bank_id) IN
  IF ledger_id = NoId \/ bank_id = NoId
  THEN /\ op' = Op("reject_approved", 400, "ledger_id and bank_id are required")
       /\ UNCHANGED <<sessionVars, thread, rerun, run_excluded, shown>>
  ELSE IF k = 0
  THEN /\ op' = Op("reject_approved", 404, "Approved match not found")
       /\ UNCHANGED <<sessionVars, thread, rerun, run_excluded, shown>>
  ELSE /\ confirmed_matches' = Pop(confirmed_matches, k)
       /\ rejected_matches' = Append(rejected_matches, Pair(ledger_id, bank_id))
       /\ matched_bank_ids' = matched_bank_ids \ {bank_id}
       /\ matched_ledger_ids' = matched_ledger_ids \ {ledger_id}
       /\ audit_trail' = audit_trail
       /\ op' = Op("reject_approved", 200, "")
       /\ UNCHANGED <<poolVars, queueVars, flagged_duplicates, skipped_matches, exclVars,
                      runVars, thread, rerun, run_excluded, shown>>

reject_approved_match(ledger_id, bank_id) ==
  LET k == FirstIndex(confirmed_matches, ledger_id, bank_id) IN
  IF ledger_id = NoId \/ bank_id = NoId
  THEN /\ op' = Op("reject_approved", 400, "ledger_id and bank_id are required")
       /\ UNCHANGED <<sessionVars, thread, rerun, run_excluded, shown>>
  ELSE IF k = 0
  THEN /\ op' = Op("reject_approved", 404, "Approved match not found")
       /\ UNCHANGED <<sessionVars, thread, rerun, run_excluded, shown>>
  ELSE /\ confirmed_matches' = Pop(confirmed_matches, k)
       /\ rejected_matches' = Append(rejected_matches, Pair(ledger_id, bank_id))
       /\ matched_bank_ids' = matched_bank_ids \ {bank_id}
       /\ matched_ledger_ids' = matched_ledger_ids \ {ledger_id}
       /\ audit_trail' = Append(audit_trail, Audit("reject", ledger_id, bank_id,
                                                   "Rejected from approved matches"))
       /\ op' = Op("reject_approved", 200, "")
       /\ UNCHANGED <<poolVars, queueVars, flagged_duplicates, skipped_matches, exclVars,
                      runVars, thread, rerun, run_excluded, shown>>

RejectApprovedMatch ==
  \E r \in RequestPairs : reject_approved_match(r[1], r[2])

(***************************************************************************)
(* restore_rejected (routes/matching.py 709-781)                           *)
(***************************************************************************)
\* get_next_match (routes/matching.py 424-443): the pairing the reviewer is
\* shown, read-only; done when the cursor is past the queue
get_next_match(results, current_idx) ==
  IF current_idx >= Len(results)
  THEN [done |-> TRUE, match |-> Pair(NoId, NoId)]
  ELSE [done |-> FALSE,
        match |-> Pair(results[current_idx + 1].l, results[current_idx + 1].b)]

\* the request for the next match: what the reviewer's screen then shows, and
\* the match_index the decision made on that screen carries
GetNextMatch ==
  LET r == get_next_match(match_results, current_index) IN
  /\ shown' = IF r.done THEN NoShown
              ELSE [match_index |-> current_index, match |-> r.match]
  /\ op' = Op("next", 200, IF r.done THEN "done" ELSE "")
  /\ UNCHANGED <<sessionVars, thread, rerun, run_excluded>>

(***************************************************************************)
(* pending (routes/matching.py 360-409 get_pending_matches)                *)
(***************************************************************************)
\* the pairings of a list of reviewed matches (lines 373-389)
PairsOf(matches) == {Pair(matches[k].l, matches[k].b) : k \in 1 .. Len(matches)}

\* lines 394-407: the entries of the queue whose pairing is in none of the
\* three lists, each with its 0-based index, in queue order
get_pending_matches ==
  LET handled == PairsOf(confirmed_matches) \cup PairsOf(rejected_matches)
                   \cup PairsOf(skipped_matches)
      entries == [i \in 1 .. Len(match_results) |->
                    [index |-> i - 1,
                     match |-> Pair(match_results[i].l, match_results[i].b)]]
  IN SelectSeq(entries, LAMBDA e : e.match \notin handled)

\* variant: the restored pairing goes to the end of the queue
restore_rejected_match_appends(ledger_id, bank_id) ==
  LET k == FirstIndex(rejected_matches, ledger_id, bank_id) IN
  IF ledger_id = NoId \/ bank_id = NoId
  THEN /\ op' = Op("restore_rejected", 400, "ledger_id and bank_id are required")
       /\ UNCHANGED <<sessionVars, thread, rerun, run_excluded, shown>>
  ELSE IF ledger_id \in matched_ledger_ids \/ bank_id \in matched_bank_ids
  THEN /\ op' = Op("restore_rejected", 400, "already matched")
       /\ UNCHANGED <<sessionVars, thread, rerun, run_excluded, shown>>
  ELSE IF k = 0
  THEN /\ op' = Op("restore_rejected", 404, "Rejected match not found")
       /\ UNCHANGED <<sessionVars, thread, rerun, run_excluded, shown>>
  ELSE /\ rejected_matches' = Pop(rejected_matches, k)
       /\ match_results' = Append(match_results, Result(ledger_id, bank_id, <<>>))
       /\ audit_trail' = Append(audit_trail, Audit("restore_to_pending", ledger_id, bank_id,
                                                   "Restored from rejected to pending review"))
       /\ op' = Op("restore_rejected", 200, "")
       /\ UNCHANGED <<poolVars, unmatched_results, current_index, confirmed_matches,
                      flagged_duplicates, skipped_matches, claimVars, exclVars, runVars,
                      thread, rerun, run_excluded, shown>>

restore_rejected_match(ledger_id, bank_id) ==
  LET k == FirstIndex(rejected_matches, ledger_id, bank_id) IN
  IF ledger_id = NoId \/ bank_id = NoId
  THEN /\ op' = Op("restore_rejected", 400, "ledger_id and bank_id are required")
       /\ UNCHANGED <<sessionVars, thread, rerun, run_excluded, shown>>
  ELSE IF ledger_id \in matched_ledger_ids \/ bank_id \in matched_bank_ids
  THEN /\ op' = Op("restore_rejected", 400, "already matched")
       /\ UNCHANGED <<sessionVars, thread, rerun, run_excluded, shown>>
  ELSE IF k = 0
  THEN /\ op' = Op("restore_rejected", 404, "Rejected match not found")
       /\ UNCHANGED <<sessionVars, thread, rerun, run_excluded, shown>>
  ELSE /\ rejected_matches' = Pop(rejected_matches, k)
       /\ match_results' = Insert(match_results, current_index,
                                  Result(ledger_id, bank_id, <<>>))
       /\ audit_trail' = Append(audit_trail, Audit("restore_to_pending", ledger_id, bank_id,
                                                   "Restored from rejected to pending review"))
       /\ op' = Op("restore_rejected", 200, "")
       /\ UNCHANGED <<poolVars, unmatched_results, current_index, confirmed_matches,
                      flagged_duplicates, skipped_matches, claimVars, exclVars, runVars,
                      thread, rerun, run_excluded, shown>>

RestoreRejectedMatch ==
  \E r \in RequestPairs : restore_rejected_match(r[1], r[2])

(***************************************************************************)
(* approve_rejected (routes/matching.py 784-856)                           *)
(***************************************************************************)
\* variant: the pairing is looked up before the claimed sets are consulted
approve_rejected_match_lookup_first(ledger_id, bank_id) ==
  LET k == FirstIndex(rejected_matches, ledger_id, bank_id) IN
  IF ledger_id = NoId \/ bank_id = NoId
  THEN /\ op' = Op("approve_rejected", 400, "ledger_id and bank_id are required")
       /\ UNCHANGED <<sessionVars, thread, rerun, run_excluded, shown>>
  ELSE IF k = 0
  THEN /\ op' = Op("approve_rejected", 404, "Rejected match not found")
       /\ UNCHANGED <<sessionVars, thread, rerun, run_excluded, shown>>
  ELSE IF ledger_id \in matched_ledger_ids \/ bank_id \in matched_bank_ids
  THEN /\ op' = Op("approve_rejected", 400, "already matched")
       /\ UNCHANGED <<sessionVars, thread, rerun, run_excluded, shown>>
  ELSE /\ rejected_matches' = Pop(rejected_matches, k)
       /\ confirmed_matches' = Append(confirmed_matches, Pair(ledger_id, bank_id))
       /\ matched_ledger_ids' = matched_ledger_ids \cup {ledger_id}
       /\ matched_bank_ids' = matched_bank_ids \cup {bank_id}
       /\ audit_trail' = Append(audit_trail, Audit("approve_rejected", ledger_id, bank_id,
                                                   "Approved directly from rejected matches"))
       /\ op' = Op("approve_rejected", 200, "")
       /\ UNCHANGED <<poolVars, queueVars, flagged_duplicates, skipped_matches, exclVars,
                      runVars, thread, rerun, run_excluded, shown>>

approve_rejected_match(ledger_id, bank_id) ==
  LET k == FirstIndex(rejected_matches, ledger_id, bank_id) IN
  IF ledger_id = NoId \/ bank_id = NoId
  THEN /\ op' = Op("approve_rejected", 400, "ledger_id and bank_id are required")
       /\ UNCHANGED <<sessionVars, thread, rerun, run_excluded, shown>>
  ELSE IF ledger_id \in matched_ledger_ids \/ bank_id \in matched_bank_ids
  THEN /\ op' = Op("approve_rejected", 400, "already matched")
       /\ UNCHANGED <<sessionVars, thread, rerun, run_excluded, shown>>
  ELSE IF k = 0
  THEN /\ op' = Op("approve_rejected", 404, "Rejected match not found")
       /\ UNCHANGED <<sessionVars, thread, rerun, run_excluded, shown>>
  ELSE /\ rejected_matches' = Pop(rejected_matches, k)
       /\ confirmed_matches' = Append(confirmed_matches, Pair(ledger_id, bank_id))
       /\ matched_ledger_ids' = matched_ledger_ids \cup {ledger_id}
       /\ matched_bank_ids' = matched_bank_ids \cup {bank_id}
       /\ audit_trail' = Append(audit_trail, Audit("approve_rejected", ledger_id, bank_id,
                                                   "Approved directly from rejected matches"))
       /\ op' = Op("approve_rejected", 200, "")
       /\ UNCHANGED <<poolVars, queueVars, flagged_duplicates, skipped_matches, exclVars,
                      runVars, thread, rerun, run_excluded, shown>>

ApproveRejectedMatch ==
  \E r \in RequestPairs : approve_rejected_match(r[1], r[2])

(***************************************************************************)
(* Batch run life cycle (routes/matching.py 203-292)                       *)
(***************************************************************************)
Filter(s, excluded) == LET keep(x) == x \notin excluded IN SelectSeq(s, keep)

run_matching_async_endpoint ==
  IF normalized_ledger = <<>> \/ normalized_bank = <<>>
  THEN /\ op' = Op("run_async", 400, "No transactions loaded")
       /\ UNCHANGED <<sessionVars, thread, rerun, run_excluded, shown>>
  ELSE IF matching_in_progress /\ matching_paused
  THEN /\ op' = Op("run_async", 400, "Matching is paused")
       /\ UNCHANGED <<sessionVars, thread, rerun, run_excluded, shown>>
  ELSE IF matching_in_progress
  THEN /\ op' = Op("run_async", 200, "already_running")
       /\ UNCHANGED <<sessionVars, thread, rerun, run_excluded, shown>>
  ELSE /\ matching_in_progress' = TRUE
       /\ matching_paused' = FALSE
       /\ matching_progress' = 0
       /\ matching_total' = Len(Filter(normalized_ledger, excluded_ledger_ids))
       /\ matching_error' = FALSE
       /\ match_results' = <<>>
       /\ unmatched_results' = <<>>
       /\ current_index' = 0
       /\ thread' = [IdleThread EXCEPT !.pc = "start"]
       /\ run_excluded' = [l |-> excluded_ledger_ids, b |-> excluded_bank_ids]
       /\ op' = Op("run_async", 200, "started")
       /\ UNCHANGED <<poolVars, reviewVars, claimVars, exclVars, audit_trail, rerun, shown>>

pause_matching ==
  IF ~matching_in_progress
  THEN /\ op' = Op("pause", 400, "Matching is not in progress")
       /\ UNCHANGED <<sessionVars, thread, rerun, run_excluded, shown>>
  ELSE /\ matching_paused' = TRUE
       /\ op' = Op("pause", 200, "paused")
       /\ UNCHANGED <<poolVars, queueVars, reviewVars, claimVars, exclVars, audit_trail,
                      matching_in_progress, matching_progress, matching_total,
                      matching_error, thread, rerun, run_excluded, shown>>

\* variant: resume clears the flag whether or not a run is active
resume_matching_clears_always ==
  /\ matching_paused' = FALSE
  /\ op' = Op("resume", 200, IF matching_in_progress /\ matching_paused THEN "resumed" ELSE "already_resumed")
  /\ UNCHANGED <<poolVars, queueVars, reviewVars, claimVars, exclVars, audit_trail,
                 matching_in_progress, matching_progress, matching_total,
                 matching_error, thread, rerun, run_excluded, shown>>

resume_matching ==
  /\ matching_paused' = IF matching_in_progress /\ matching_paused THEN FALSE
                        ELSE matching_paused
  /\ op' = Op("resume", 200, IF matching_in_progress /\ matching_paused THEN "resumed" ELSE "already_resumed")
  /\ UNCHANGED <<poolVars, queueVars, reviewVars, claimVars, exclVars, audit_trail,
                 matching_in_progress, matching_progress, matching_total,
                 matching_error, thread, rerun, run_excluded, shown>>

(***************************************************************************)
(* The synchronous run (routes/matching.py 295-357 run_matching over       *)
(* llm_helper.py 479-556 evaluate_match_batch).                            *)
(***************************************************************************)
\* the confidence the model behind the selector may state for its answer
LLMConfidences == {0, One}

\* the confidence select_best_match returns beside the answer r
selector_confidence(l, candidates, r, llm_confidence) ==
  IF r.mode = "llm"
  THEN IF r.idx # None
       THEN (llm_confidence * 6 + Score(l, candidates[r.idx + 1]) * 4) \div 10
       ELSE llm_confidence
  ELSE IF r.idx # None THEN Score(l, candidates[1]) ELSE 0

\* results.sort(key=confidence, reverse=True): stable, highest first
RECURSIVE InsertByConfidence(_, _)
InsertByConfidence(e, sorted) ==
  IF sorted = <<>> THEN <<e>>
  ELSE IF Head(sorted).confidence >= e.confidence
       THEN <<Head(sorted)>> \o InsertByConfidence(e, Tail(sorted))
       ELSE <<e>> \o sorted

RECURSIVE SortByConfidence(_)
SortByConfidence(results) ==
  IF results = <<>> THEN <<>>
  ELSE InsertByConfidence(results[Len(results)],
                          SortByConfidence(SubSeq(results, 1, Len(results) - 1)))

\* the result lists evaluate_match_batch can return, one for every way the
\* selector can answer, from position i on
RECURSIVE BatchFrom(_, _, _, _, _)
BatchFrom(ledger_transactions, bank_transactions, i, matched, results) ==
  IF i > Len(ledger_transactions) THEN {SortByConfidence(results)}
  ELSE LET l == ledger_transactions[i]
           candidates == find_candidates(l, bank_transactions, matched, 5)
       IN IF candidates = <<>>
          THEN BatchFrom(ledger_transactions, bank_transactions, i + 1, matched,
                         Append(results, [l |-> l, b |-> NoId, candidates |-> <<>>,
                                          confidence |-> 0,
                                          llm_explanation |-> NoCandidates]))
          ELSE UNION
                 { BatchFrom(ledger_transactions, bank_transactions, i + 1,
                             IF a[1].idx # None
                             THEN matched \cup {candidates[a[1].idx + 1]} ELSE matched,
                             Append(results,
                                    [l |-> l,
                                     b |-> IF a[1].idx # None
                                           THEN candidates[a[1].idx + 1] ELSE NoId,
                                     candidates |-> candidates,
                                     confidence |-> selector_confidence(l, candidates,
                                                                        a[1], a[2]),
                                     llm_explanation |-> a[1].mode]))
                   : a \in select_best_match(l, candidates) \X LLMConfidences }

evaluate_match_batch(ledger_transactions, bank_transactions) ==
  BatchFrom(ledger_transactions, bank_transactions, 1, {}, <<>>)

\* evaluate_match_batch on each pair of pools a caller can have loaded
BatchResults ==
  [p \in PoolChoices |-> evaluate_match_batch(p.ledger, p.bank)]

\* lines 319-342: the entries with a bank transaction, those without
MatchedOf(results) ==
  LET found == SelectSeq(results, LAMBDA e : e.b # NoId)
  IN [k \in 1 .. Len(found) |-> Result(found[k].l, found[k].b, found[k].candidates)]

UnmatchedOf(results) ==
  LET rest == SelectSeq(results, LAMBDA e : e.b = NoId)
  IN [k \in 1 .. Len(rest) |->
        Unmatched(rest[k].l, rest[k].candidates, rest[k].llm_explanation)]

\* the two buckets of every batch result, per pool
BatchBuckets ==
  [p \in PoolChoices |->
     {[matched |-> MatchedOf(results), unmatched |-> UnmatchedOf(results)] :
        results \in BatchResults[p]}]

\* the HTTPException of line 305 is raised inside the try and reaches the
\* handler of lines 356-357, as does an exception out of the scoring
run_matching ==
  \/ /\ normalized_ledger = <<>> \/ normalized_bank = <<>>
     /\ op' = Op("run", 500, "No transactions loaded")
     /\ UNCHANGED <<sessionVars, thread, rerun, run_excluded, shown>>
  \/ /\ normalized_ledger # <<>> /\ normalized_bank # <<>>
     /\ op' = Op("run", 500, "")
     /\ UNCHANGED <<sessionVars, thread, rerun, run_excluded, shown>>
  \/ /\ normalized_ledger # <<>> /\ normalized_bank # <<>>
     /\ \E buckets \in BatchBuckets[[ledger |-> normalized_ledger,
                                      bank |-> normalized_bank]] :
          /\ match_results' = buckets.matched
          /\ unmatched_results' = buckets.unmatched
     /\ current_index' = 0
     /\ op' = Op("run", 200, "")
     /\ UNCHANGED <<poolVars, reviewVars, claimVars, exclVars, audit_trail, runVars,
                    thread, rerun, run_excluded, shown>>

(***************************************************************************)
(* The background thread (routes/matching.py 49-200 run_matching_async).   *)
(***************************************************************************)
\* variant: the loop visits every position, excluded or not
NextIndexUnfiltered(ledger_txns, excluded, i) ==
  IF i > Len(ledger_txns) THEN Len(ledger_txns) + 1 ELSE i

\* the for loop's head: the next position from i on whose ledger id is not
\* excluded, Len + 1 when the list is exhausted
NextIndex(ledger_txns, excluded, i) ==
  LET rest == {j \in i .. Len(ledger_txns) : ledger_txns[j] \notin excluded}
  IN IF rest = {} THEN Len(ledger_txns) + 1 ELSE CHOOSE j \in rest : \A k \in rest : j <= k

\* variant: progress is counted by the loop index, excluded positions included
AtLoopCountsIndex(t, i) ==
  LET j == NextIndex(t.ledger_txns, t.excluded_ledger_ids, i) IN
  IF j > Len(t.ledger_txns)
  THEN [t EXCEPT !.pc = "merge", !.i = j, !.candidates = <<>>, !.selected_idx = None,
                 !.explanation = ""]
  ELSE [t EXCEPT !.pc = "wait1", !.i = j, !.processed_count = j,
                 !.candidates = <<>>, !.selected_idx = None, !.explanation = ""]

\* variant: the loop body starts without its first check-point
AtLoopNoCheckpoint(t, i) ==
  LET j == NextIndex(t.ledger_txns, t.excluded_ledger_ids, i) IN
  IF j > Len(t.ledger_txns)
  THEN [t EXCEPT !.pc = "merge", !.i = j, !.candidates = <<>>, !.selected_idx = None,
                 !.explanation = ""]
  ELSE [t EXCEPT !.pc = "progress", !.i = j, !.processed_count = t.processed_count + 1,
                 !.candidates = <<>>, !.selected_idx = None, !.explanation = ""]

\* the thread at the head of the loop body for position i (processed_count is
\* raised before the first check-point), or past the loop
AtLoop(t, i) ==
  LET j == NextIndex(t.ledger_txns, t.excluded_ledger_ids, i) IN
  IF j > Len(t.ledger_txns)
  THEN [t EXCEPT !.pc = "merge", !.i = j, !.candidates = <<>>, !.selected_idx = None,
                 !.explanation = ""]
  ELSE [t EXCEPT !.pc = "wait1", !.i = j, !.processed_count = t.processed_count + 1,
                 !.candidates = <<>>, !.selected_idx = None, !.explanation = ""]

\* lines 64-98: the snapshot under the lock, then the locals
ThreadSnapshot ==
  /\ thread.pc = "start"
  /\ matching_in_progress' = TRUE
  /\ matching_paused' = FALSE
  /\ matching_progress' = 0
  /\ matching_total' = Len(Filter(normalized_ledger, excluded_ledger_ids))
  /\ matching_error' = FALSE
  /\ match_results' = <<>>
  /\ unmatched_results' = <<>>
  /\ current_index' = 0
  /\ thread' = AtLoop([IdleThread EXCEPT
                         !.ledger_txns = normalized_ledger,
                         !.bank_txns_filtered = Filter(normalized_bank, excluded_bank_ids),
                         !.excluded_ledger_ids = excluded_ledger_ids], 1)
  /\ op' = Op("thread_snapshot", 200, "")
  /\ UNCHANGED <<poolVars, reviewVars, claimVars, exclVars, audit_trail, rerun, run_excluded, shown>>

\* wait_if_paused (49-58) at the four check-points 109, 125, 143, 156: blocked
\* while the run is paused, gone when the run is no longer in progress
\* variant: the selector is called whether or not there are candidates
AfterWaitAlwaysSelects(t) ==
  CASE t.pc = "wait1" -> [t EXCEPT !.pc = "progress"]
    [] t.pc = "wait2" -> [t EXCEPT !.pc = "wait3"]
    [] t.pc = "wait3" -> [t EXCEPT !.pc = "select"]
    [] t.pc = "wait4" -> [t EXCEPT !.pc = "append"]

AfterWait(t) ==
  CASE t.pc = "wait1" -> [t EXCEPT !.pc = "progress"]
    [] t.pc = "wait2" -> [t EXCEPT !.pc = IF t.candidates = <<>> THEN "append" ELSE "wait3"]
    [] t.pc = "wait3" -> [t EXCEPT !.pc = "select"]
    [] t.pc = "wait4" -> [t EXCEPT !.pc = "append"]

\* variant: a check-point forgets the candidates found before it
ThreadWaitDropsCandidates ==
  /\ thread.pc \in {"wait1", "wait2", "wait3", "wait4"}
  /\ ~matching_in_progress \/ ~matching_paused
  /\ thread' = IF ~matching_in_progress THEN IdleThread
               ELSE AfterWait([thread EXCEPT !.candidates = <<>>])
  /\ op' = Op("thread_wait", 200, "")
  /\ UNCHANGED <<sessionVars, rerun, run_excluded, shown>>

ThreadWait ==
  /\ thread.pc \in {"wait1", "wait2", "wait3", "wait4"}
  /\ ~matching_in_progress \/ ~matching_paused
  /\ thread' = IF ~matching_in_progress THEN IdleThread ELSE AfterWait(thread)
  /\ op' = Op("thread_wait", 200, "")
  /\ UNCHANGED <<sessionVars, rerun, run_excluded, shown>>

\* lines 113-122: progress under the lock, then find_candidates on the locals
ThreadProgress ==
  /\ thread.pc = "progress"
  /\ matching_progress' = thread.processed_count
  /\ thread' = [thread EXCEPT
                  !.pc = "wait2",
                  !.candidates = find_candidates(thread.ledger_txns[thread.i],
                                                 thread.bank_txns_filtered,
                                                 thread.matched_bank_ids, 5)]
  /\ op' = Op("thread_progress", 200, "")
  /\ UNCHANGED <<poolVars, queueVars, reviewVars, claimVars, exclVars, audit_trail,
                 matching_in_progress, matching_paused, matching_total, matching_error,
                 rerun, run_excluded, shown>>

\* an exception out of the scoring of lines 117-122 (the engine subtracts the
\* two dates, whatever their type) reaches the handler of lines 197-200
ThreadRaise ==
  /\ thread.pc = "progress"
  /\ matching_progress' = thread.processed_count
  /\ thread' = [thread EXCEPT !.pc = "except"]
  /\ op' = Op("thread_raise", 200, "")
  /\ UNCHANGED <<poolVars, queueVars, reviewVars, claimVars, exclVars, audit_trail,
                 matching_in_progress, matching_paused, matching_total, matching_error,
                 rerun, run_excluded, shown>>

\* variant: the failed run still merges the bank ids it had picked
ThreadExceptMerges ==
  /\ thread.pc = "except"
  /\ matching_in_progress' = FALSE
  /\ matching_error' = TRUE
  /\ matched_bank_ids' = matched_bank_ids \cup thread.matched_bank_ids
  /\ thread' = IdleThread
  /\ op' = Op("thread_except", 200, "")
  /\ UNCHANGED <<poolVars, queueVars, reviewVars, matched_ledger_ids, exclVars, audit_trail,
                 matching_paused, matching_progress, matching_total, rerun, run_excluded, shown>>

\* variant: the failure handler leaves the run marked as in progress
ThreadExceptStaysActive ==
  /\ thread.pc = "except"
  /\ matching_error' = TRUE
  /\ thread' = IdleThread
  /\ op' = Op("thread_except", 200, "")
  /\ UNCHANGED <<poolVars, queueVars, reviewVars, claimVars, exclVars, audit_trail,
                 matching_in_progress, matching_paused, matching_progress, matching_total,
                 rerun, run_excluded, shown>>

ThreadExcept ==
  /\ thread.pc = "except"
  /\ matching_in_progress' = FALSE
  /\ matching_error' = TRUE
  /\ thread' = IdleThread
  /\ op' = Op("thread_except", 200, "")
  /\ UNCHANGED <<poolVars, queueVars, reviewVars, claimVars, exclVars, audit_trail,
                 matching_paused, matching_progress, matching_total, rerun, run_excluded, shown>>

\* variant: a failure of the capability escapes the selector and ends the run
ThreadSelectFailureRaises ==
  /\ thread.pc = "select"
  /\ \E r \in select_best_match(thread.ledger_txns[thread.i], thread.candidates) :
       /\ thread' = [thread EXCEPT !.pc = IF r.mode = "fallback" THEN "except" ELSE "wait4",
                                      !.selected_idx = r.idx, !.explanation = r.mode]
       /\ op' = Op("thread_select", 200, "")
  /\ UNCHANGED <<sessionVars, rerun, run_excluded, shown>>

\* lines 149-153: the decision selector's call returns
ThreadSelect ==
  /\ thread.pc = "select"
  /\ \E r \in select_best_match(thread.ledger_txns[thread.i], thread.candidates) :
       /\ thread' = [thread EXCEPT !.pc = "wait4", !.selected_idx = r.idx,
                                      !.explanation = r.mode]
       /\ op' = Op("thread_select", 200, "")
  /\ UNCHANGED <<sessionVars, rerun, run_excluded, shown>>

\* variant: the selected bank id is not added to the run's matched_bank_ids
ThreadAppendForgetsSelection ==
  /\ thread.pc = "append"
  /\ LET l == thread.ledger_txns[thread.i]
         picked == thread.candidates # <<>> /\ thread.selected_idx # None
         b == IF picked THEN thread.candidates[thread.selected_idx + 1] ELSE NoId
     IN /\ match_results' =
             IF picked THEN Append(match_results, Result(l, b, thread.candidates))
             ELSE match_results
        /\ unmatched_results' =
             IF picked THEN unmatched_results
             ELSE Append(unmatched_results,
                         Unmatched(l, thread.candidates,
                                   IF thread.candidates = <<>> THEN NoCandidates
                                   ELSE thread.explanation))
        /\ thread' = AtLoop(thread, thread.i + 1)
        /\ op' = Op("thread_append", 200, "")
  /\ UNCHANGED <<poolVars, current_index, reviewVars, claimVars, exclVars, audit_trail,
                 runVars, rerun, run_excluded, shown>>

\* lines 128-140 and 159-186: one result entry into one bucket, then the loop head
ThreadAppend ==
  /\ thread.pc = "append"
  /\ LET l == thread.ledger_txns[thread.i]
         picked == thread.candidates # <<>> /\ thread.selected_idx # None
         b == IF picked THEN thread.candidates[thread.selected_idx + 1] ELSE NoId
     IN /\ match_results' =
             IF picked THEN Append(match_results, Result(l, b, thread.candidates))
             ELSE match_results
        /\ unmatched_results' =
             IF picked THEN unmatched_results
             ELSE Append(unmatched_results,
                         Unmatched(l, thread.candidates,
                                   IF thread.candidates = <<>> THEN NoCandidates
                                   ELSE thread.explanation))
        /\ thread' = AtLoop([thread EXCEPT
                               !.matched_bank_ids =
                                  IF picked THEN thread.matched_bank_ids \cup {b}
                                  ELSE thread.matched_bank_ids],
                            thread.i + 1)
        /\ op' = Op("thread_append", 200, "")
  /\ UNCHANGED <<poolVars, current_index, reviewVars, claimVars, exclVars, audit_trail,
                 runVars, rerun, run_excluded, shown>>

\* lines 188-195: the run's bank ids into the session's claimed set, run over
ThreadMerge ==
  /\ thread.pc = "merge"
  /\ matched_bank_ids' = matched_bank_ids \cup thread.matched_bank_ids
  /\ matching_in_progress' = FALSE
  /\ thread' = IdleThread
  /\ op' = Op("thread_merge", 200, "")
  /\ UNCHANGED <<poolVars, queueVars, reviewVars, matched_ledger_ids, exclVars, audit_trail,
                 matching_paused, matching_progress, matching_total, matching_error,
                 rerun, run_excluded, shown>>

(***************************************************************************)
(* rerun (routes/exceptions.py 81-182): the snapshot under the lock, the   *)
(* ranking outside it, the write under the lock again.                     *)
(***************************************************************************)
MinScore == (One * 3) \div 10

RECURSIVE AsResults(_)
AsResults(cs) ==
  IF cs = <<>> THEN <<>> ELSE <<Result(Head(cs).l, Head(cs).b, <<>>)>> \o AsResults(Tail(cs))

RerunSnapshot ==
  /\ rerun.pc = "idle"
  /\ rerun' = [pc |-> "write",
               new_results |->
                 AsResults(find_all_candidates(
                             Filter(normalized_ledger, matched_ledger_ids),
                             Filter(normalized_bank, matched_bank_ids), MinScore))]
  /\ op' = Op("rerun_snapshot", 200, "")
  /\ UNCHANGED <<sessionVars, thread, run_excluded, shown>>

\* an exception out of the ranking is reported as a 500
RerunRaise ==
  /\ rerun.pc = "write"
  /\ rerun' = IdleRerun
  /\ op' = Op("rerun", 500, "")
  /\ UNCHANGED <<sessionVars, thread, run_excluded, shown>>

RerunWrite ==
  /\ rerun.pc = "write"
  /\ match_results' = match_results \o rerun.new_results
  /\ current_index' = IF current_index >= Len(match_results) THEN Len(match_results)
                      ELSE current_index
  /\ rerun' = IdleRerun
  /\ op' = Op("rerun", 200, "")
  /\ UNCHANGED <<poolVars, unmatched_results, reviewVars, claimVars, exclVars, audit_trail,
                 runVars, thread, run_excluded, shown>>

(***************************************************************************)
(* The specifications.  The request handlers are coroutines of one event   *)
(* loop and contain no await, so each runs to completion before the next   *)
(* request is served; the background thread runs beside them and           *)
(* interleaves at every release of match_state_lock, also inside rerun.    *)
(* Each specification is the program under one environment: which          *)
(* requests the client issues, and how many.                               *)
(***************************************************************************)
HandlerFree == rerun.pc = "idle"

\* the client stops issuing a decision that would outgrow the bounds
InBounds(cap) == Len(audit_trail) <= cap /\ Len(match_results) <= MaxQueue

\* Spec: a review session over the queue the bulk re-scan fills.  No batch run
\* is started: run-async is issued only before the import, pause and resume at
\* any time.
Next ==
  \/ HandlerFree /\ SetTransactions
  \/ HandlerFree /\ SeekToMatch
  \/ HandlerFree /\ SubmitMatchAction /\ InBounds(MaxAudit)'
  \/ HandlerFree /\ RejectApprovedMatch /\ InBounds(MaxAudit)'
  \/ HandlerFree /\ RestoreRejectedMatch /\ InBounds(MaxAudit)'
  \/ HandlerFree /\ ApproveRejectedMatch /\ InBounds(MaxAudit)'
  \/ HandlerFree /\ normalized_ledger = <<>> /\ run_matching_async_endpoint
  \/ HandlerFree /\ pause_matching
  \/ HandlerFree /\ resume_matching
  \/ HandlerFree /\ RerunSnapshot
  \/ RerunRaise
  \/ RerunWrite /\ InBounds(MaxAudit)'

Spec == Init /\ [][Next]_vars

\* SpecRun: the batch run, watched by a reviewer who imports, starts, pauses,
\* resumes and decides on the results as they arrive.
Thread ==
  \/ ThreadSnapshot
  \/ ThreadWait
  \/ ThreadProgress
  \/ ThreadRaise
  \/ ThreadExcept
  \/ ThreadSelect
  \/ ThreadAppend
  \/ ThreadMerge

NextRun ==
  \/ SetTransactions
  \/ run_matching_async_endpoint
  \/ pause_matching
  \/ resume_matching
  \/ SubmitMatchAction /\ InBounds(MaxRunAudit)'
  \/ Thread

SpecRun == Init /\ [][NextRun]_vars

\* SpecSync: the two ways to run a batch, the synchronous run and the run in
\* the background, issued in any order over the pools of the first import.
NextSync ==
  \/ normalized_ledger = <<>> /\ SetTransactions
  \/ run_matching_async_endpoint
  \/ run_matching
  \/ pause_matching
  \/ resume_matching
  \/ Thread

SpecSync == Init /\ [][NextSync]_vars

\* SpecDone: runs in the background that nothing disturbs: no import while a
\* run is active and no synchronous run; the reviewer decides on the queue.
NextDone ==
  \/ ~matching_in_progress /\ SetTransactions
  \/ run_matching_async_endpoint
  \/ pause_matching
  \/ resume_matching
  \/ SubmitMatchAction /\ InBounds(MaxRunAudit)'
  \/ Thread

SpecDone == Init /\ [][NextDone]_vars

\* SpecMock: as SpecDone, with the selector mocked by its deterministic rule
\* for a model that is not configured, and decisions only between runs.
Mocked == thread.explanation = "unavailable"

NextMock ==
  \/ ~matching_in_progress /\ SetTransactions
  \/ run_matching_async_endpoint
  \/ pause_matching
  \/ resume_matching
  \/ ~matching_in_progress /\ SubmitMatchAction /\ InBounds(MaxRunAudit)'
  \/ ThreadSnapshot
  \/ ThreadWait
  \/ ThreadProgress
  \/ ThreadRaise
  \/ ThreadExcept
  \/ ThreadSelect /\ Mocked'
  \/ ThreadAppend
  \/ ThreadMerge

SpecMock == Init /\ [][NextMock]_vars

\* SpecConfirm: a session in which the reviewer only confirms, rejects and
\* moves pairings between the confirmed and rejected collections.
Decide == \E action \in {"match", "reject"} : submit_match_action(action)

NextConfirm ==
  \/ HandlerFree /\ normalized_ledger = <<>> /\ SetTransactions
  \/ HandlerFree /\ SeekToMatch
  \/ HandlerFree /\ Decide /\ InBounds(MaxConfirmAudit)'
  \/ HandlerFree /\ RejectApprovedMatch /\ InBounds(MaxConfirmAudit)'
  \/ HandlerFree /\ RestoreRejectedMatch /\ InBounds(MaxConfirmAudit)'
  \/ HandlerFree /\ ApproveRejectedMatch /\ InBounds(MaxConfirmAudit)'
  \/ HandlerFree /\ match_results = <<>> /\ RerunSnapshot
  \/ RerunWrite /\ InBounds(MaxConfirmAudit)'

SpecConfirm == Init /\ [][NextConfirm]_vars

\* SpecRerun: the bulk re-scan requested while a run in the background is
\* active or over, the reviewer confirming and rejecting between requests.
NextRerun ==
  \/ HandlerFree /\ normalized_ledger = <<>> /\ SetTransactions
  \/ HandlerFree /\ run_matching_async_endpoint
  \/ HandlerFree /\ Decide /\ InBounds(MaxRunAudit)'
  \/ HandlerFree /\ RerunSnapshot
  \/ RerunRaise
  \/ RerunWrite /\ InBounds(MaxRunAudit)'
  \/ Thread

SpecRerun == Init /\ [][NextRerun]_vars

\* SpecCursor: every operation that writes the pending queue or the cursor,
\* issued in any order over the pools of the first import: seek, confirm and
\* reject, restore, the bulk re-scan, the run in the background and the
\* synchronous run.  Only the calls that succeed are followed (a failed call
\* changes nothing), one decision and its restore are issued, and the
\* selector is the deterministic rule of a capability that is not configured.
Succeeds == op'.status = 200

\* the buckets a batch leaves when the capability is not configured: the top
\* candidate or nothing is selected, filed under the explanation of that rule
Unconfigured ==
  /\ \A k \in 1 .. Len(match_results) :
       match_results[k].b = match_results[k].candidates[1]
  /\ \A k \in 1 .. Len(unmatched_results) :
       unmatched_results[k].llm_explanation \in {NoCandidates, "unavailable"}

NextCursor ==
  \/ HandlerFree /\ normalized_ledger = <<>> /\ SetTransactions
  \/ HandlerFree /\ SeekToMatch /\ Succeeds
  \/ HandlerFree /\ Decide /\ Succeeds /\ InBounds(MaxAudit)'
  \/ HandlerFree /\ RestoreRejectedMatch /\ Succeeds /\ InBounds(MaxCursorAudit)'
  \/ HandlerFree /\ run_matching_async_endpoint /\ Succeeds
  \/ HandlerFree /\ run_matching /\ Succeeds /\ Unconfigured'
  \/ HandlerFree /\ RerunSnapshot
  \/ RerunRaise
  \/ RerunWrite /\ InBounds(MaxCursorAudit)'
  \/ ThreadSnapshot
  \/ ThreadWait
  \/ ThreadProgress
  \/ ThreadRaise
  \/ ThreadExcept
  \/ ThreadSelect /\ Mocked'
  \/ ThreadAppend
  \/ ThreadMerge

SpecCursor == Init /\ [][NextCursor]_vars

\* SpecShown: the reviewer asks for the next match and decides on what the
\* screen shows; a seek (a click on another row, or a second window), other
\* decisions, a restore and the steps of a run in the background come between.
NextShown ==
  \/ HandlerFree /\ normalized_ledger = <<>> /\ SetTransactions
  \/ HandlerFree /\ run_matching_async_endpoint /\ Succeeds
  \/ HandlerFree /\ GetNextMatch
  \/ HandlerFree /\ SeekToMatch /\ Succeeds
  \/ HandlerFree /\ SubmitMatchAction /\ Succeeds /\ InBounds(MaxCursorAudit)'
  \/ HandlerFree /\ RestoreRejectedMatch /\ Succeeds /\ InBounds(MaxCursorAudit)'
  \/ ThreadSnapshot
  \/ ThreadWait
  \/ ThreadProgress
  \/ ThreadRaise
  \/ ThreadExcept
  \/ ThreadSelect /\ Mocked'
  \/ ThreadAppend
  \/ ThreadMerge

SpecShown == Init /\ [][NextShown]_vars

\* SpecLive and SpecHang: runs in the background over the pools of the first
\* import, paused and resumed at will, under fair scheduling.  The thread is
\* a running Python thread: a step it can take is taken (ThreadWork), and its
\* 0.5 s poll of a check-point sees a flag that is clear again and again
\* (ThreadWait, strongly fair).  A paused run is resumed in the end (Resumed).
\* In SpecLive the capability answers every call, by a reply or an error; in
\* SpecHang nothing is assumed of it: generate_content is called without a
\* timeout (llm_helper.py 445) and the thread waits for as long as it takes.
NextLive ==
  \/ normalized_ledger = <<>> /\ SetTransactions
  \/ run_matching_async_endpoint
  \/ pause_matching
  \/ resume_matching
  \/ Thread

ThreadWork ==
  \/ ThreadSnapshot
  \/ ThreadProgress
  \/ ThreadRaise
  \/ ThreadExcept
  \/ ThreadAppend
  \/ ThreadMerge

Resumed == matching_in_progress /\ matching_paused /\ resume_matching

Scheduling == WF_vars(ThreadWork) /\ SF_vars(ThreadWait) /\ WF_vars(Resumed)

SpecHang == Init /\ [][NextLive]_vars /\ Scheduling

SpecLive == Init /\ [][NextLive]_vars /\ Scheduling /\ WF_vars(ThreadSelect)

(***************************************************************************)
(* SpecEngine: the scorer, the ranker and the selector called on their own *)
(* (engine.py compute_match_score, find_candidates; llm_helper.py          *)
(* select_best_match).  The call is drawn at the start, with status 0      *)
(* until it has returned; the session is not touched.                      *)
(***************************************************************************)
ScoreLedgerIds == {"L1", "L2", "L3"}
ScoreBankIds == {"B1", "B2", "B3", "B4", "B5"}

\* MatchingEngine(vendor_threshold, amount_tolerance, date_window, require_reference)
Configs ==
  {[DefaultConfig EXCEPT !.vendor_threshold = t, !.require_reference = r] :
     t \in {0, 800}, r \in BOOLEAN}

\* bank lists without a repeated transaction, in any order
BankLists ==
  {bs \in UNION {[1 .. n -> ScoreBankIds] : n \in 0 .. MaxBanks} :
     \A j, k \in 1 .. Len(bs) : bs[j] = bs[k] => j = k}

MatchedSets == {{}, {"B1"}, {"B2", "B3"}}

\* datetimes in hours since the epoch: day 10 at 00:00, 10:00 and 23:00,
\* day 11 at 00:00 and 02:00, day 13 at 00:00, day 15 at 12:00
Timestamps == {240, 250, 263, 264, 266, 312, 372}
TopKs == {1, 2, 5}

Call(name, args) ==
  [name |-> name, status |-> 0, detail |-> "", args |-> args, result |-> <<>>]

EngineCalls ==
  {Call("compute_match_score", [cfg |-> cfg, l |-> l, b |-> b]) :
     cfg \in Configs, l \in ScoreLedgerIds, b \in ScoreBankIds}
    \cup {Call("find_candidates",
               [l |-> l, bank_transactions |-> bs, matched_bank_ids |-> m, top_k |-> k]) :
             l \in ScoreLedgerIds, bs \in BankLists, m \in MatchedSets, k \in TopKs}
    \cup {Call("select_best_match", [l |-> l, candidates |-> find_candidates(l, bs, {}, 5)]) :
             l \in ScoreLedgerIds, bs \in BankLists}
    \cup {Call("compute_date_score", [cfg |-> cfg, ledger_date |-> a, bank_date |-> b]) :
             cfg \in Configs, a \in Timestamps, b \in Timestamps}

InitEngine ==
  /\ normalized_ledger = <<>>
  /\ normalized_bank = <<>>
  /\ match_results = <<>>
  /\ unmatched_results = <<>>
  /\ current_index = 0
  /\ confirmed_matches = <<>>
  /\ rejected_matches = <<>>
  /\ flagged_duplicates = <<>>
  /\ skipped_matches = <<>>
  /\ matched_bank_ids = {}
  /\ matched_ledger_ids = {}
  /\ excluded_ledger_ids = {}
  /\ excluded_bank_ids = {}
  /\ audit_trail = <<>>
  /\ matching_in_progress = FALSE
  /\ matching_paused = FALSE
  /\ matching_progress = 0
  /\ matching_total = 0
  /\ matching_error = FALSE
  /\ thread = IdleThread
  /\ rerun = IdleRerun
  /\ op \in EngineCalls
  /\ run_excluded = [l |-> {}, b |-> {}]
  /\ shown = NoShown

ComputeMatchScore ==
  /\ op.name = "compute_match_score"
  /\ op.status = 0
  /\ op' = [op EXCEPT !.status = 200,
                       !.result = compute_match_score(op.args.cfg, op.args.l, op.args.b)]
  /\ UNCHANGED <<sessionVars, thread, rerun, run_excluded, shown>>

ComputeDateScore ==
  /\ op.name = "compute_date_score"
  /\ op.status = 0
  /\ op' = [op EXCEPT !.status = 200,
                       !.result = compute_date_score(op.args.cfg, op.args.ledger_date,
                                                     op.args.bank_date)]
  /\ UNCHANGED <<sessionVars, thread, rerun, run_excluded, shown>>

FindCandidates ==
  /\ op.name = "find_candidates"
  /\ op.status = 0
  /\ op' = [op EXCEPT !.status = 200,
                       !.result = find_candidates(op.args.l, op.args.bank_transactions,
                                                  op.args.matched_bank_ids, op.args.top_k)]
  /\ UNCHANGED <<sessionVars, thread, rerun, run_excluded, shown>>

SelectBestMatch ==
  /\ op.name = "select_best_match"
  /\ op.status = 0
  /\ \E reply \in Replies(op.args.candidates), llm_confidence \in LLMConfidences :
       LET r == select_best_match_on(op.args.l, op.args.candidates, reply)
       IN op' = [op EXCEPT !.status = 200,
                           !.result =
                              [reply |-> reply, llm_confidence |-> llm_confidence,
                               idx |-> r.idx, mode |-> r.mode,
                               confidence |->
                                 selector_confidence(op.args.l, op.args.candidates, r,
                                                     llm_confidence)]]
  /\ UNCHANGED <<sessionVars, thread, rerun, run_excluded, shown>>

NextEngine ==
  \/ ComputeMatchScore
  \/ ComputeDateScore
  \/ FindCandidates
  \/ SelectBestMatch

SpecEngine == InitEngine /\ [][NextEngine]_vars

(***************************************************************************)
(* Properties.                                                             *)
(***************************************************************************)
IsPrefix(s, t) == Len(s) <= Len(t) /\ SubSeq(t, 1, Len(s)) = s
Last(s) == s[Len(s)]
Has(s, l, b) == \E k \in 1 .. Len(s) : s[k].l = l /\ s[k].b = b
Claimed(l, b) == l \in matched_ledger_ids \/ b \in matched_bank_ids
IdPairs == LedgerIds \X BankIds

\* C1: in every reachable state the ledger id of every entry of
\* confirmed_matches is in matched_ledger_ids and its bank id is in
\* matched_bank_ids.
C1_ConfirmedIdsAreClaimed ==
  \A k \in 1 .. Len(confirmed_matches) :
    /\ confirmed_matches[k].l \in matched_ledger_ids
    /\ confirmed_matches[k].b \in matched_bank_ids

\* C2: in every reachable state no ledger id and no bank id occurs in more
\* than one entry of confirmed_matches.
C2_OneConfirmedEntryPerId ==
  \A j, k \in 1 .. Len(confirmed_matches) :
    j # k => /\ confirmed_matches[j].l # confirmed_matches[k].l
             /\ confirmed_matches[j].b # confirmed_matches[k].b

\* C3 as stated: in every reachable state no id of a pairing in
\* rejected_matches is in a claimed set.
C3_RejectedIdsUnclaimed ==
  \A k \in 1 .. Len(rejected_matches) :
    /\ rejected_matches[k].l \notin matched_ledger_ids
    /\ rejected_matches[k].b \notin matched_bank_ids

\* C3: a rejection never leaves its pairing's claim behind: a successful
\* reject_approved(l, b) ends with l outside matched_ledger_ids and b outside
\* matched_bank_ids and (l, b) in rejected_matches, and a successful
\* act('reject') changes neither claimed set.  (An id of a rejected pairing
\* may be claimed later by another pairing.)
C3_RejectionReleasesClaim ==
  [][/\ \A r \in IdPairs :
          (reject_approved_match(r[1], r[2]) /\ op'.status = 200)
          => /\ r[1] \notin matched_ledger_ids'
             /\ r[2] \notin matched_bank_ids'
             /\ Has(rejected_matches', r[1], r[2])
     /\ (submit_match_action("reject") /\ op'.status = 200)
          => UNCHANGED claimVars]_vars

\* a rejected pairing whose bank id another confirmed pairing has claimed since
C3_Witness ==
  \E k \in 1 .. Len(rejected_matches) :
    /\ rejected_matches[k].b \in matched_bank_ids
    /\ ~Has(confirmed_matches, rejected_matches[k].l, rejected_matches[k].b)
    /\ \E j \in 1 .. Len(confirmed_matches) :
         confirmed_matches[j].b = rejected_matches[k].b

\* C4: reject_approved(l, b) on a pairing present in confirmed_matches removes
\* one occurrence of it from confirmed_matches, appends it to
\* rejected_matches, removes l and b from the claimed sets, appends one audit
\* entry of action 'reject', and leaves the queue and the cursor unchanged.
C4_RejectApprovedEffect ==
  [][\A r \in IdPairs :
       (reject_approved_match(r[1], r[2]) /\ Has(confirmed_matches, r[1], r[2]))
       => /\ op'.status = 200
          /\ \E k \in 1 .. Len(confirmed_matches) :
               /\ confirmed_matches[k] = Pair(r[1], r[2])
               /\ confirmed_matches' = SubSeq(confirmed_matches, 1, k - 1)
                                       \o SubSeq(confirmed_matches, k + 1,
                                                 Len(confirmed_matches))
          /\ rejected_matches' = rejected_matches \o <<Pair(r[1], r[2])>>
          /\ matched_ledger_ids' = matched_ledger_ids \ {r[1]}
          /\ matched_bank_ids' = matched_bank_ids \ {r[2]}
          /\ Len(audit_trail') = Len(audit_trail) + 1
          /\ IsPrefix(audit_trail, audit_trail')
          /\ Last(audit_trail').action = "reject"
          /\ Last(audit_trail').l = r[1] /\ Last(audit_trail').b = r[2]
          /\ UNCHANGED <<match_results, current_index>>]_vars

\* a confirmed pairing was rejected while the queue still held an entry
C4_Witness ==
  /\ op.name = "reject_approved" /\ op.status = 200
  /\ rejected_matches # <<>> /\ match_results # <<>>
  /\ Last(audit_trail).action = "reject"
  /\ Last(audit_trail).notes = "Rejected from approved matches"

\* C5: a call that reports a failure leaves all session state unchanged.
C5_FailureChangesNothing ==
  [][op'.status # 200 => UNCHANGED sessionVars]_vars

\* a seek out of range was refused in a session that has decisions on record
C5_Witness ==
  /\ op.name = "seek" /\ op.status = 400
  /\ audit_trail # <<>> /\ match_results # <<>>

\* the outcome of a request on a rejected pairing, by the state it meets
C6_Outcome(l, b) ==
  /\ Claimed(l, b) => op'.status = 400 /\ op'.detail = "already matched"
  /\ (~Claimed(l, b) /\ ~Has(rejected_matches, l, b)) => op'.status = 404
  /\ op'.status = 200 <=> (~Claimed(l, b) /\ Has(rejected_matches, l, b))

\* C6: restore_rejected(l, b) and approve_rejected(l, b) fail with Conflict
\* (400 'already matched') when l or b is claimed, with NotFound (404) when
\* neither is claimed and the pairing is not in rejected_matches, and succeed
\* exactly when neither is claimed and the pairing is in rejected_matches.
C6_ConflictBeforeNotFound ==
  [][\A r \in IdPairs :
       /\ restore_rejected_match(r[1], r[2]) => C6_Outcome(r[1], r[2])
       /\ approve_rejected_match(r[1], r[2]) => C6_Outcome(r[1], r[2])]_vars

\* an approval was refused as a conflict while rejected pairings are on record
C6_Witness ==
  /\ op.name = "approve_rejected" /\ op.status = 400 /\ op.detail = "already matched"
  /\ rejected_matches # <<>> /\ confirmed_matches # <<>>

\* C7: a successful act(action) appends exactly one audit entry, of that
\* action and the current entry's ids, and advances the cursor by one; with
\* action 'match' it also appends the pairing to confirmed_matches and adds
\* its ledger id and bank id to the claimed sets.
C7_ActEffect ==
  [][\A a \in Actions :
       (op'.name = "act" /\ op'.status = 200 /\ submit_match_action(a))
       => LET e == match_results[current_index + 1] IN
          /\ audit_trail' = audit_trail \o <<Audit(a, e.l, e.b, "")>>
          /\ current_index' = current_index + 1
          /\ a = "match" =>
               /\ confirmed_matches' = confirmed_matches \o <<Pair(e.l, e.b)>>
               /\ matched_ledger_ids' = matched_ledger_ids \cup {e.l}
               /\ matched_bank_ids' = matched_bank_ids \cup {e.b}
               /\ e.l \in matched_ledger_ids' /\ e.b \in matched_bank_ids']_vars

\* a pairing was confirmed by act('match')
C7_Witness ==
  /\ op.name = "act" /\ op.status = 200
  /\ audit_trail # <<>> /\ Last(audit_trail).action = "match"
  /\ confirmed_matches # <<>> /\ current_index > 0

\* C8: the audit trail is append-only: every step leaves the entries it
\* already holds in place, in order, and only adds at the end.
C8_AuditAppendOnly ==
  [][IsPrefix(audit_trail, audit_trail')]_vars

\* C9: set_transactions(ledger, bank) replaces both pools, empties both
\* result buckets, every review collection and both claimed sets, sets the
\* cursor to 0, and leaves both exclusion sets as they were.
C9_ImportResetsButKeepsExclusions ==
  [][\A p \in PoolChoices :
       (op'.name = "set_transactions" /\ set_transactions(p.ledger, p.bank))
       => /\ normalized_ledger' = p.ledger /\ normalized_bank' = p.bank
          /\ match_results' = <<>> /\ unmatched_results' = <<>>
          /\ current_index' = 0
          /\ confirmed_matches' = <<>> /\ rejected_matches' = <<>>
          /\ flagged_duplicates' = <<>> /\ skipped_matches' = <<>>
          /\ matched_ledger_ids' = {} /\ matched_bank_ids' = {}
          /\ excluded_ledger_ids' = excluded_ledger_ids
          /\ excluded_bank_ids' = excluded_bank_ids]_vars

\* an import over a session that had excluded a ledger and a bank transaction
C9_Witness ==
  /\ op.name = "set_transactions"
  /\ excluded_ledger_ids # {} /\ excluded_bank_ids # {}
  /\ flagged_duplicates = <<>> /\ match_results = <<>>

\* C10: no entry the batch run appends to a result bucket has a ledger id
\* that was excluded when the run was started, and neither its paired bank
\* id nor any of its candidates was an excluded bank id then.
C10_RunHonoursExclusions ==
  [][ThreadAppend
     => LET e == IF match_results' # match_results THEN Last(match_results')
                 ELSE Last(unmatched_results')
        IN /\ e.l \notin run_excluded.l
           /\ e.b \notin run_excluded.b
           /\ \A k \in 1 .. Len(e.candidates) : e.candidates[k] \notin run_excluded.b]_vars

\* the run appended a queue entry while a ledger and a bank exclusion were in
\* force at its start
C10_Witness ==
  /\ op.name = "thread_append"
  /\ run_excluded.l # {} /\ run_excluded.b # {}
  /\ match_results # <<>>

\* C11: run-async issued while a run is active (Running or Paused) is not an
\* error and changes no session state.
C11_StartWhileActiveIsNoError ==
  [][(matching_in_progress /\ run_matching_async_endpoint)
     => (op'.status = 200 /\ UNCHANGED sessionVars)]_vars

\* C12: while a run is active, no start of a run, asynchronous or
\* synchronous, resets or replaces the result buckets or the cursor.
C12_ActiveRunKeepsItsBuckets ==
  [][(matching_in_progress /\ (run_matching_async_endpoint \/ run_matching))
     => UNCHANGED queueVars]_vars

\* C13: the paused flag of an active run is cleared only by resume.
C13_PausedUntilResume ==
  [][(matching_in_progress /\ matching_paused /\ matching_in_progress'
      /\ ~matching_paused') => resume_matching]_vars

\* C14: resume never reports an error, changes nothing but the paused flag,
\* changes no state at all unless a run is active and paused, and leaves a
\* state in which a second resume changes nothing.
C14_ResumeIdempotent ==
  [][resume_matching
     => /\ op'.status = 200
        /\ ~(matching_in_progress /\ matching_paused) => UNCHANGED sessionVars
        /\ ~(matching_in_progress' /\ matching_paused')
        /\ UNCHANGED <<poolVars, queueVars, reviewVars, claimVars, exclVars, audit_trail,
                       matching_in_progress, matching_progress, matching_total,
                       matching_error>>]_vars

\* resume met a paused flag left behind by a run that is over, and kept it
C14_Witness ==
  /\ op.name = "resume" /\ op.detail = "already_resumed"
  /\ ~matching_in_progress /\ matching_paused

\* C15: while a run is active matching_progress never decreases and never
\* exceeds matching_total, and when the run completes matching_progress
\* equals matching_total, the number of ledger transactions of the run's
\* snapshot whose id is not excluded.
C15_ProgressReachesTotal ==
  [][/\ (matching_in_progress /\ matching_in_progress')
          => matching_progress' >= matching_progress
     /\ matching_in_progress' => matching_progress' <= matching_total'
     /\ ThreadMerge
          => /\ matching_progress = matching_total
             /\ matching_total = Len(Filter(thread.ledger_txns,
                                            thread.excluded_ledger_ids))]_vars

\* a run over a snapshot with an excluded ledger transaction completed
C15_Witness ==
  /\ op.name = "thread_merge"
  /\ run_excluded.l # {}
  /\ matching_total > 0 /\ matching_progress = matching_total

\* C17: the run's snapshot leaves claimed transactions out: the total counts
\* only ledger transactions that are neither excluded nor claimed, and no
\* bank transaction offered to the run is claimed.
C17_RunSkipsClaimed ==
  [][ThreadSnapshot
     => /\ matching_total' =
             Len(Filter(normalized_ledger, excluded_ledger_ids \cup matched_ledger_ids))
        /\ \A k \in 1 .. Len(thread'.bank_txns_filtered) :
             thread'.bank_txns_filtered[k] \notin matched_bank_ids]_vars

\* C20: a failure of the background run ends the run with the error
\* recorded, and neither the failure nor its handling changes the result
\* buckets or the claimed sets.
C20_FailureKeepsPartialResults ==
  [][/\ ThreadRaise => UNCHANGED <<queueVars, claimVars>>
     /\ ThreadExcept
          => /\ ~matching_in_progress' /\ matching_error'
             /\ UNCHANGED <<queueVars, claimVars>>]_vars

\* a run failed after it had appended a match whose bank id stays unclaimed
C20_Witness ==
  /\ op.name = "thread_except"
  /\ ~matching_in_progress /\ matching_error
  /\ match_results # <<>> /\ matched_bank_ids = {}

\* the run of lines 100-195 from position i on, executed in one piece with
\* the mocked selector: the two buckets and the run's claimed bank ids
RECURSIVE Uninterrupted(_, _, _, _, _)
Uninterrupted(ledger_txns, bank_txns_filtered, excluded, i, out) ==
  IF i > Len(ledger_txns) THEN out
  ELSE IF ledger_txns[i] \in excluded
  THEN Uninterrupted(ledger_txns, bank_txns_filtered, excluded, i + 1, out)
  ELSE LET l == ledger_txns[i]
           cands == find_candidates(l, bank_txns_filtered, out.claimed, 5)
           r == CHOOSE x \in select_best_match(l, cands) : x.mode = "unavailable"
       IN Uninterrupted(ledger_txns, bank_txns_filtered, excluded, i + 1,
            IF cands = <<>>
            THEN [out EXCEPT !.unmatched = Append(@, Unmatched(l, cands, NoCandidates))]
            ELSE IF r.idx = None
            THEN [out EXCEPT !.unmatched = Append(@, Unmatched(l, cands, r.mode))]
            ELSE [out EXCEPT !.matched = Append(@, Result(l, cands[r.idx + 1], cands)),
                             !.claimed = @ \cup {cands[r.idx + 1]}])

\* C16: with the mocked selector and nothing else touching the session, a run
\* that completes, however often it was paused and resumed, ends with the
\* buckets and the merged claimed bank ids of the same run executed without
\* a pause.
C16_PauseResumeSameResult ==
  [][ThreadMerge
     => LET whole == Uninterrupted(thread.ledger_txns, thread.bank_txns_filtered,
                                   thread.excluded_ledger_ids, 1,
                                   [matched |-> <<>>, unmatched |-> <<>>, claimed |-> {}])
        IN /\ match_results = whole.matched
           /\ unmatched_results = whole.unmatched
           /\ matched_bank_ids' = matched_bank_ids \cup whole.claimed]_vars

\* a run over two ledger transactions completed with a pause accepted during it
C16_Witness ==
  /\ op.name = "thread_merge" /\ matching_paused
  /\ Len(match_results) + Len(unmatched_results) >= 2

\* how many entries of s are for the ledger transaction l
Count(s, l) == Cardinality({k \in 1 .. Len(s) : s[k].l = l})

\* C18: when an undisturbed run completes, every non-excluded ledger
\* transaction of its snapshot has exactly one result, in exactly one bucket,
\* and the buckets hold nothing else; a result goes to the matched bucket
\* exactly when the selector returned an index; a transaction without
\* candidates is filed unmatched with score 0 and the explanation 'No
\* candidates found by heuristics', and the selector is not called for it.
C18_OneResultPerTransaction ==
  [][/\ ThreadMerge
          => LET todo == Filter(thread.ledger_txns, thread.excluded_ledger_ids)
             IN /\ \A k \in 1 .. Len(todo) :
                     Count(match_results, todo[k]) + Count(unmatched_results, todo[k]) = 1
                /\ Len(match_results) + Len(unmatched_results) = Len(todo)
     /\ ThreadAppend
          => /\ IF thread.candidates # <<>> /\ thread.selected_idx # None
                THEN /\ match_results' = match_results \o
                          <<[l |-> thread.ledger_txns[thread.i],
                             b |-> thread.candidates[thread.selected_idx + 1],
                             candidates |-> thread.candidates]>>
                     /\ unmatched_results' = unmatched_results
                ELSE /\ match_results' = match_results
                     /\ Len(unmatched_results') = Len(unmatched_results) + 1
                     /\ Last(unmatched_results').l = thread.ledger_txns[thread.i]
                     /\ Last(unmatched_results').b = NoId
             /\ thread.candidates = <<>>
                  => /\ thread.selected_idx = None
                     /\ Last(unmatched_results').heuristic_score = 0
                     /\ Last(unmatched_results').llm_explanation =
                          "No candidates found by heuristics"
     /\ ThreadSelect => thread.candidates # <<>>]_vars

\* a run completed with a match and with a transaction left without candidates
C18_Witness ==
  /\ op.name = "thread_merge"
  /\ match_results # <<>>
  /\ \E k \in 1 .. Len(unmatched_results) :
       /\ unmatched_results[k].candidates = <<>>
       /\ unmatched_results[k].llm_explanation = "No candidates found by heuristics"

\* where the ledger transaction l stands in the loaded ledger list
Position(l) == CHOOSE k \in 1 .. Len(normalized_ledger) : normalized_ledger[k] = l

\* C19: the entries of the matched bucket stand in the order of their ledger
\* transactions in the input list.
C19_MatchedKeepProcessingOrder ==
  \A j, k \in 1 .. Len(match_results) :
    j < k => Position(match_results[j].l) < Position(match_results[k].l)

\* C24: whenever a veto applies (the transaction types differ, or a reference
\* is required and the reference score is below 0.8), compute_match_score
\* returns exactly 0.1, whatever the other scores and the vendor threshold.
Vetoed(cfg, l, b) ==
  \/ Txn(l).txn_type # Txn(b).txn_type
  \/ /\ cfg.require_reference
     /\ compute_reference_score(Txn(l).reference, Txn(b).reference) < 800

C24_VetoScoresOneTenth ==
  (op.name = "compute_match_score" /\ op.status = 200
     /\ Vetoed(op.args.cfg, op.args.l, op.args.b))
    => op.result = One \div 10

\* C21: heuristic-only selection.  Without the capability the selector
\* returns index 0 iff the list is non-empty and its first score is at least
\* 0.5; on the path taken after an error of the capability it returns index 0
\* iff the first score is at least 0.6; otherwise it returns none with
\* confidence 0.  A selection carries the first candidate's score as its
\* confidence, and the explanation is the fallback text of the path taken.
TopScore(l, candidates) == IF candidates = <<>> THEN 0 ELSE Score(l, candidates[1])

HeuristicOnly(call) ==
  /\ call.name = "select_best_match"
  /\ call.status = 200
  /\ \/ call.result.reply.kind = "unavailable"
     \/ call.result.reply.kind \in {"exception", "malformed"} /\ call.args.candidates # <<>>

IndexIn(s, x) == CHOOSE k \in 1 .. Len(s) : s[k] = x
Elements(s) == {s[k] : k \in 1 .. Len(s)}

C25_TopKRanking ==
  (op.name = "find_candidates" /\ op.status = 200) =>
    LET l == op.args.l
        banks == op.args.bank_transactions
        returned == op.result
        left_out == (Elements(banks) \ op.args.matched_bank_ids) \ Elements(returned)
    IN /\ Len(returned) <= op.args.top_k
       /\ Elements(returned) \subseteq Elements(banks) \ op.args.matched_bank_ids
       /\ \A j, k \in 1 .. Len(returned) :
            j < k => \/ Score(l, returned[j]) > Score(l, returned[k])
                     \/ /\ Score(l, returned[j]) = Score(l, returned[k])
                        /\ IndexIn(banks, returned[j]) < IndexIn(banks, returned[k])
       /\ \A b \in left_out :
            /\ Len(returned) = op.args.top_k
            /\ Score(l, b) <= Score(l, returned[Len(returned)])

\* two candidates of equal score returned from a list of three whose third
\* transaction is claimed
C25_Witness ==
  /\ op.name = "find_candidates"
  /\ op.status = 200
  /\ Len(op.result) = 2
  /\ Score(op.args.l, op.result[1]) = Score(op.args.l, op.result[2])
  /\ Len(op.args.bank_transactions) = 3
  /\ Elements(op.args.bank_transactions) \cap op.args.matched_bank_ids # {}

\* C22: a failure of the decision capability (an exception, or text that
\* cannot be parsed) for one transaction is never fatal: the selector returns
\* the heuristic-only decision annotated as a fallback, the run does not fail
\* because of it, and the thread files the result and goes on to the next
\* source transaction.
Failures == {"exception", "malformed"}

C22_SelectorFailureIsLocal ==
  [][/\ (thread.pc = "select" /\ op'.name = "thread_select") =>
          \A reply \in Replies(thread.candidates) :
            reply.kind \in Failures =>
              LET l == thread.ledger_txns[thread.i]
                  r == select_best_match_on(l, thread.candidates, reply)
              IN /\ r.mode = "fallback"
                 /\ r.idx = (IF Score(l, thread.candidates[1]) >= (One * 6) \div 10
                             THEN 0 ELSE None)
     /\ (thread.pc = "select" /\ thread'.explanation = "fallback") =>
          /\ thread'.pc = "wait4"
          /\ thread'.i = thread.i
          /\ UNCHANGED <<matching_in_progress, matching_error, queueVars>>
     /\ (thread.explanation = "fallback" /\ thread.pc \in {"wait4", "append"}
           /\ thread' # thread) =>
          /\ UNCHANGED <<matching_in_progress, matching_error>>
          /\ thread.pc = "wait4" => thread'.pc = "append" /\ thread'.i = thread.i
          /\ thread.pc = "append" =>
               /\ thread'.pc \in {"wait1", "merge"}
               /\ thread'.i > thread.i
               /\ Len(match_results') + Len(unmatched_results')
                    = Len(match_results) + Len(unmatched_results) + 1]_vars

\* a fallback that declined was filed as unmatched and the thread is at the
\* head of the loop for the next source transaction
C22_Witness ==
  /\ op.name = "thread_append"
  /\ unmatched_results # <<>>
  /\ unmatched_results[Len(unmatched_results)].llm_explanation = "fallback"
  /\ matching_in_progress
  /\ ~matching_error
  /\ thread.pc = "wait1"

\* C23: a call of the decision capability that does not return within the
\* timeout is treated like a failure of the capability: the selector hands a
\* decision back to the thread, which goes on, even if the external call
\* never answers.
C23_SelectorCallIsBounded == (thread.pc = "select") ~> (thread.pc = "wait4")

\* C28: under fair scheduling, with a capability that always returns and
\* every pause followed by a resume, every started run leaves the active
\* state: matching_in_progress becomes false, as Done or Failed.
C28_RunEnds == matching_in_progress ~> ~matching_in_progress

\* a run has ended with both transactions filed, the pause flag still set
C28_Witness ==
  /\ op.name = "thread_merge"
  /\ ~matching_in_progress
  /\ matching_paused
  /\ Len(match_results) + Len(unmatched_results) = 2

\* C26: a successful restore_rejected(l, b) removes the pairing from
\* rejected_matches, inserts it into the pending queue at the cursor, so that
\* the next request for the next match returns exactly that pairing, appends
\* one audit entry, and leaves the cursor, confirmed_matches and both claimed
\* sets unchanged.
C26_RestoreEffect ==
  [][\A r \in IdPairs :
       (op'.name = "restore_rejected" /\ op'.status = 200
          /\ restore_rejected_match(r[1], r[2]))
       => /\ \E k \in 1 .. Len(rejected_matches) :
               /\ rejected_matches[k] = Pair(r[1], r[2])
               /\ rejected_matches' = Pop(rejected_matches, k)
          /\ Len(match_results') = Len(match_results) + 1
          /\ \A j \in 1 .. Len(match_results) :
               match_results'[IF j <= current_index THEN j ELSE j + 1] = match_results[j]
          /\ get_next_match(match_results', current_index')
               = [done |-> FALSE, match |-> Pair(r[1], r[2])]
          /\ Len(audit_trail') = Len(audit_trail) + 1
          /\ IsPrefix(audit_trail, audit_trail')
          /\ Last(audit_trail').action = "restore_to_pending"
          /\ Last(audit_trail').l = r[1] /\ Last(audit_trail').b = r[2]
          /\ UNCHANGED <<current_index, confirmed_matches, claimVars>>]_vars

\* a pairing was restored in front of an entry still pending, behind one
\* already decided
C26_Witness ==
  /\ op.name = "restore_rejected" /\ op.status = 200
  /\ current_index > 0
  /\ Len(match_results) > current_index + 1
  /\ Last(audit_trail).action = "restore_to_pending"

\* C27: the bulk re-scan is atomic with respect to what runs beside it: every
\* pairing it appends to the pending queue has a ledger id and a bank id that
\* are outside the claimed sets at the moment of the append.
C27_RerunAppendsUnclaimed ==
  [][(op'.name = "rerun" /\ op'.status = 200 /\ RerunWrite) =>
       \A k \in 1 .. Len(rerun.new_results) :
         /\ rerun.new_results[k].l \notin matched_ledger_ids
         /\ rerun.new_results[k].b \notin matched_bank_ids]_vars

\* C29: while matching_paused stays true the thread does a bounded amount of
\* further work before it blocks at a check-point: at most one more result
\* entry, one more raise of matching_progress, one more selector call.  A
\* thread at a check-point does not move while the run is paused, and each
\* working step (raise progress and rank, call the selector, file a result)
\* ends at a check-point or past the loop.
CheckPoints == {"wait1", "wait2", "wait3", "wait4"}

C29_PausedThreadBlocks ==
  [][(matching_in_progress /\ matching_paused /\ matching_paused') =>
       /\ thread.pc \in CheckPoints => UNCHANGED thread
       /\ (thread.pc \in {"progress", "select", "append"} /\ thread' # thread) =>
            /\ thread'.pc \in CheckPoints \cup {"merge", "except"}
            /\ Len(match_results') + Len(unmatched_results')
                 <= Len(match_results) + Len(unmatched_results) + 1
            /\ thread.pc # "append" => UNCHANGED <<match_results, unmatched_results>>
            /\ thread.pc # "progress" => UNCHANGED matching_progress]_vars

\* the selector was called after the pause and the thread stands at the
\* check-point behind the call
C29_Witness ==
  /\ matching_in_progress
  /\ matching_paused
  /\ op.name = "thread_select"
  /\ thread.pc = "wait4"

\* C30: within one run in the background every bank transaction id is the
\* selected counterpart of at most one result of the matched bucket: once a
\* bank id has been selected for a source transaction it is not ranked as a
\* candidate for a later source transaction of the same run.
SelectedBanks == {match_results[k].b : k \in 1 .. Len(match_results)}

C30_BankSelectedOnce ==
  [][/\ (matching_in_progress /\ op'.name = "thread_progress") =>
          \A k \in 1 .. Len(thread'.candidates) :
            /\ thread'.candidates[k] \notin SelectedBanks
            /\ thread'.candidates[k] \notin thread.matched_bank_ids
     /\ (matching_in_progress /\ op'.name = "thread_append") =>
          /\ thread.matched_bank_ids = SelectedBanks
          /\ \A j, k \in 1 .. Len(match_results') :
               match_results'[j].b = match_results'[k].b => j = k]_vars

\* the second source transaction was matched to the bank transaction the
\* first one had left
C30_Witness ==
  /\ op.name = "thread_append"
  /\ Len(match_results) = 2
  /\ match_results[1].b # match_results[2].b
  /\ Len(match_results[2].candidates) = 1

\* C31: select_best_match returns none or an index i with
\* 0 <= i < len(candidates).  With the capability, an answer selecting the
\* 1-based index k, 1 <= k <= len(candidates), gives index k - 1 with the
\* confidence 0.6 * the answer's confidence + 0.4 * the score of candidate
\* k - 1; an answer whose index is null, 0, negative or past the list gives
\* none.
C31_SelectionInRange ==
  (op.name = "select_best_match" /\ op.status = 200) =>
    LET candidates == op.args.candidates
        k == op.result.reply.selected_candidate
    IN /\ op.result.idx = None
          \/ (0 <= op.result.idx /\ op.result.idx < Len(candidates))
       /\ op.result.reply.kind = "answer" =>
            IF 1 <= k /\ k <= Len(candidates)
            THEN /\ op.result.idx = k - 1
                 /\ 10 * op.result.confidence
                      = 6 * op.result.llm_confidence + 4 * Score(op.args.l, candidates[k])
            ELSE op.result.idx = None

\* the answer named the second of several candidates
C31_Witness ==
  /\ op.name = "select_best_match" /\ op.status = 200
  /\ op.result.reply.kind = "answer"
  /\ op.result.reply.selected_candidate = 2
  /\ op.result.idx = 1
  /\ op.result.llm_confidence = One
  /\ Len(op.args.candidates) = 3

\* C32: the date score depends only on the calendar dates of the two
\* transactions and ignores the time of day: two timestamps of the same
\* calendar date score 1.0, and compute_date_score(a, b) equals
\* compute_date_score(b, a).
CalendarDay(t) == t \div 24

C32_DateScoreIgnoresTimeOfDay ==
  (op.name = "compute_date_score" /\ op.status = 200) =>
    /\ CalendarDay(op.args.ledger_date) = CalendarDay(op.args.bank_date) => op.result = 1000
    /\ op.result = compute_date_score(op.args.cfg, op.args.bank_date, op.args.ledger_date)

\* C33: the bulk re-scan never appends to the pending queue a pairing whose
\* ledger id is in excluded_ledger_ids or whose bank id is in
\* excluded_bank_ids.
C33_RerunSkipsExcluded ==
  [][(op'.name = "rerun" /\ op'.status = 200 /\ RerunWrite) =>
       \A k \in 1 .. Len(rerun.new_results) :
         /\ rerun.new_results[k].l \notin excluded_ledger_ids
         /\ rerun.new_results[k].b \notin excluded_bank_ids]_vars

\* C34: the claimed sets hold only ids of confirmed pairings: in every
\* reachable state, also after a batch run has completed, every id of
\* matched_ledger_ids is the ledger id, and every id of matched_bank_ids the
\* bank id, of an entry of confirmed_matches.
C34_ClaimedIdsAreConfirmed ==
  /\ \A l \in matched_ledger_ids :
       \E k \in 1 .. Len(confirmed_matches) : confirmed_matches[k].l = l
  /\ \A b \in matched_bank_ids :
       \E k \in 1 .. Len(confirmed_matches) : confirmed_matches[k].b = b

C36_RunStatusWellFormed ==
  /\ matching_paused => matching_in_progress
  /\ matching_error => ~matching_in_progress

\* C37: a result leaves the pending state as soon as the reviewer acts on it:
\* after a successful act with any action on the result at the cursor, the
\* pending snapshot no longer reports the entry of that index.
C37_ActedResultLeavesPending ==
  [][(op'.name = "act" /\ op'.status = 200) =>
       \A k \in 1 .. Len(get_pending_matches') :
         get_pending_matches'[k].index # current_index]_vars

\* C38: the pending snapshot reports each pending pairing once: after any
\* sequence of act, reject_approved, restore_rejected and approve_rejected, no
\* two entries it returns have the same (ledger_id, bank_id) pairing.
C38_PendingPairsDistinct ==
  \A j, k \in 1 .. Len(get_pending_matches) :
    j # k => get_pending_matches[j].match # get_pending_matches[k].match

\* C39: an act request that carries match_index i is applied to the result at
\* index i of the queue, the result the reviewer was shown by next, under any
\* interleaving of seek, act, restore_rejected and steps of the run between
\* that next and the act.  The request carries the match_index of the screen
\* it was made on; the result acted on is the one the audit entry names.
C39_ActAppliesToShown ==
  [][(op'.name = "act" /\ op'.status = 200 /\ shown # NoShown) =>
       LET entry == audit_trail'[Len(audit_trail')] IN
       /\ current_index = shown.match_index
       /\ Pair(entry.l, entry.b) = shown.match]_vars

\* C40: after set_transactions the session holds nothing derived from the
\* previous pools: a run started before it appends no result and merges no
\* bank id afterwards, so that in every reachable state every queued result,
\* every unmatched result and every claimed id refers to a transaction of the
\* current pools.
C40_ResultsReferToCurrentPools ==
  /\ \A k \in 1 .. Len(match_results) :
       /\ match_results[k].l \in Elements(normalized_ledger)
       /\ match_results[k].b \in Elements(normalized_bank)
  /\ \A k \in 1 .. Len(unmatched_results) :
       unmatched_results[k].l \in Elements(normalized_ledger)
  /\ matched_bank_ids \subseteq Elements(normalized_bank)
  /\ matched_ledger_ids \subseteq Elements(normalized_ledger)

====
